---- MODULE Spec2Model ----
(***************************************************************************)
(* A model of jaraco/path: the resumable depth-first directory walker      *)
(* (Path.walk, Traversal, Handlers, matchers.load) and the symbolic        *)
(* permission-mask compiler (masks.simple, masks.compound).                *)
(*                                                                         *)
(* The file system and the caller's callbacks are the environment: a       *)
(* directory tree of at most MaxNodes entries below the walk root is fixed *)
(* in Init, and every call the walker makes into the environment           *)
(* (os.listdir, the match predicate, the follow predicate) is answered     *)
(* when the walker makes it and recorded, so that the properties can refer *)
(* to the answers.                                                         *)
(***************************************************************************)
EXTENDS Integers, Sequences, FiniteSets, TLC

\* ------------------------------------------------------------------------
\* Bounds
\* ------------------------------------------------------------------------

\* Number of file-system entries below the walk root.
MaxNodes == 3

\* ------------------------------------------------------------------------
\* The directory tree
\* ------------------------------------------------------------------------

\* The walk root (self of the outermost walk call).
Root == 0

\* The entries below the root; an entry stands for the Path self / child.
Nodes == 1 .. MaxNodes

VARIABLES
    parent,      \* parent[n]: the directory holding entry n
    kind,        \* kind[n]: "dir" or "file" (what is_dir / is_file answer)
    errors,      \* the errors= argument of the outermost walk call
    matchParam,  \* the match= argument of the outermost walk call
    driver,      \* who resumes the generator: "plain" iteration or "Traversal"
    error_fn,    \* walk's local error_fn (the resolved handler)
    match,       \* walk's local match (the loaded matcher)
    stack,       \* the active walk generators, outermost first
    pc,          \* position of the innermost generator
    traverse,    \* walk's local traverse for the current child
    item,        \* the item the consumer received last
    yielded,     \* every item yielded so far, in order
    listing,     \* listing[d]: how os.listdir(d) answered ("?" = not asked)
    matchRes,    \* matchRes[n]: how match(n) answered ("?" = not asked)
    followLog,   \* the calls of Traversal.follow, in order, with their outcome
    handlerLog,  \* the calls of error_fn, in order
    exc,         \* the exception that left the generator, or NoExc
    clauses,     \* the symbolic clauses a mode string is written from
    mode,        \* the mode string given to chmod
    mask,        \* chmod's local mask (the compiled mode), or an exception
    st_mode,     \* the numeric mode the mask is applied to
    new_mode,    \* what the mask returned
    module,          \* the path module of the class (Path.module): the dialect
    cwd,             \* the process working directory, as os.getcwd() answers
    self,            \* the Path value an operation is called on
    dest,            \* the argument of relpathto
    result,          \* what the last operation returned, or None
    obj,             \* the class of the current value
    start,           \* the class of the value the chain of operations began with
    last,            \* the last operation: its name, the class it was called on, the class it returned
    nops,            \* how many operations the chain has so far
    os_path,         \* the path module of the host (os.path), which sets os.pathsep
    mcls,            \* the Multi class in use
    input,           \* the string given to the Multi class
    value,           \* the value detect or the class made of input, or None
    made,            \* how value was made
    items,           \* what iterating value yielded, or None
    dir_module,      \* the path module of the class of the listed directory
    entries,         \* what os.listdir answers for the directory, with the kind of each entry
    matchArg,        \* the match argument of iterdir, dirs or files
    listed,          \* what iterdir, dirs or files returned, or None
    disk,            \* the file at the path and the file at the backup name
    open_mode,       \* the characters of the mode given to in_place
    original,        \* the content of the file before in_place
    readable,        \* the file object in_place opens on the backup, or None
    writable,        \* the file object in_place opens on the new file, or None
    ip_pc,           \* where the with-block of in_place stands
    ip_exc,          \* the exception that left the with-block, or NoExc
    workdir,         \* the working directory of the process
    old_dir,         \* old_dir[p]: the attribute _old_dir of the Path p
    blocks,          \* the with-blocks that are active, outermost first
    event,           \* the last thing that happened to a with-block, or None
    unwinding,       \* the exception that is leaving the with-blocks, or NoExc
    chdirs,          \* how often a body has called os.chdir
    tmp,             \* tmp[d]: what the temporary directory d holds, for every d that exists
    tmp_before,      \* tmp as it was before the TempDir was made
    td,              \* the TempDir value, or None
    entered,         \* what __enter__ returned, or None
    td_pc,           \* where the use of the TempDir stands
    td_exc,          \* the exception that left the block, or NoExc
    td_log,          \* what was done with the TempDir inside the block, in order
    volume,          \* volume[p]: what is at the relative path p: a directory, a file or nothing
    volume_before,   \* volume as it was before the call
    protected,       \* the directories in which the process may not make or remove entries
    notempty_errno,  \* the errno the platform gives when a directory to remove holds something
    dcall,           \* the method called and the Path it is called on, or None
    doutcome,        \* what the call returned and the exception that left it, or None
    perms,           \* the Permissions value, or None
    shown,           \* its symbolic form and its str, or None
    text,            \* the characters the file holds
    text_before,     \* text as it was before write_lines
    given,           \* the lines given to write_lines
    appending,       \* the argument append of write_lines
    linesep,         \* os.linesep
    written,         \* whether write_lines has returned
    stat,            \* what os.stat answers for the file: its access and modification time
    stat_before,     \* stat as it was before the assignment
    assigned,        \* the attribute assigned, the value, and whether the assignment is done
    pat_obj,         \* the Pattern object: its class, its pattern and, once set, its _pattern
    pat_calls        \* the paths the object was applied to, with the module of each and the answer

cfgVars  == <<parent, kind, errors, matchParam, driver>>
walkVars == <<error_fn, match, stack, pc, traverse, item, yielded,
              listing, matchRes, followLog, handlerLog, exc>>
maskVars == <<clauses, mode, mask, st_mode, new_mode>>
pathVars == <<module, cwd, self, dest, result>>
classVars == <<obj, start, last, nops>>
multiVars == <<os_path, mcls, input, value, made, items>>
listdirVars == <<dir_module, entries, matchArg, listed>>
inplaceVars == <<disk, open_mode, original, readable, writable, ip_pc, ip_exc>>
chdirVars == <<workdir, old_dir, blocks, event, unwinding, chdirs>>
tempdirVars == <<tmp, tmp_before, td, entered, td_pc, td_exc, td_log>>
dirsVars == <<volume, volume_before, protected, notempty_errno, dcall, doutcome>>
permsVars == <<perms, shown>>
linesVars == <<text, text_before, given, appending, linesep, written>>
timesVars == <<stat, stat_before, assigned>>
patternVars == <<pat_obj, pat_calls>>
libVars  == <<pathVars, classVars, multiVars, listdirVars, inplaceVars, chdirVars, tempdirVars, dirsVars, permsVars, linesVars, timesVars, patternVars>>
exceptPath == <<cfgVars, walkVars, maskVars, classVars, multiVars, listdirVars, inplaceVars, chdirVars, tempdirVars, dirsVars, permsVars, linesVars, timesVars, patternVars>>
exceptClass == <<cfgVars, walkVars, maskVars, pathVars, multiVars, listdirVars, inplaceVars, chdirVars, tempdirVars, dirsVars, permsVars, linesVars, timesVars, patternVars>>
exceptMulti == <<cfgVars, walkVars, maskVars, pathVars, classVars, listdirVars, inplaceVars, chdirVars, tempdirVars, dirsVars, permsVars, linesVars, timesVars, patternVars>>
exceptListdir == <<cfgVars, walkVars, maskVars, pathVars, classVars, multiVars, inplaceVars, chdirVars, tempdirVars, dirsVars, permsVars, linesVars, timesVars, patternVars>>
exceptInplace == <<cfgVars, walkVars, maskVars, pathVars, classVars, multiVars, listdirVars, chdirVars, tempdirVars, dirsVars, permsVars, linesVars, timesVars, patternVars>>
exceptChdir == <<cfgVars, walkVars, maskVars, pathVars, classVars, multiVars, listdirVars, inplaceVars, tempdirVars, dirsVars, permsVars, linesVars, timesVars, patternVars>>
exceptTempdir == <<cfgVars, walkVars, maskVars, pathVars, classVars, multiVars, listdirVars, inplaceVars, chdirVars, dirsVars, permsVars, linesVars, timesVars, patternVars>>
exceptDirs == <<cfgVars, walkVars, maskVars, pathVars, classVars, multiVars, listdirVars, inplaceVars, chdirVars, tempdirVars, permsVars, linesVars, timesVars, patternVars>>
exceptPerms == <<cfgVars, walkVars, maskVars, pathVars, classVars, multiVars, listdirVars, inplaceVars, chdirVars, tempdirVars, dirsVars, linesVars, timesVars, patternVars>>
exceptLines == <<cfgVars, walkVars, maskVars, pathVars, classVars, multiVars, listdirVars, inplaceVars, chdirVars, tempdirVars, dirsVars, permsVars, timesVars, patternVars>>
exceptTimes == <<cfgVars, walkVars, maskVars, pathVars, classVars, multiVars, listdirVars, inplaceVars, chdirVars, tempdirVars, dirsVars, permsVars, linesVars, patternVars>>
exceptPattern == <<cfgVars, walkVars, maskVars, pathVars, classVars, multiVars, listdirVars, inplaceVars, chdirVars, tempdirVars, dirsVars, permsVars, linesVars, timesVars>>
vars     == <<cfgVars, walkVars, maskVars, libVars>>

\* Python's None.
None == [t |-> "NoneType", v |-> "None"]

\* No exception has left the generator.
NoExc == [type |-> "none"]

\* A str object.
Str(s) == [t |-> "str", v |-> s]

\* A function object.
Func(f) == [t |-> "function", v |-> f]

\* Trees: every entry hangs below the root or below an earlier entry.
ParentVectors == {p \in [Nodes -> 0 .. MaxNodes - 1] : \A n \in Nodes : p[n] < n}

\* Only an entry without children can be a regular file.
KindsOf(p) ==
    {k \in [Nodes -> {"dir", "file"}] :
        \A n \in Nodes : (\E c \in Nodes : p[c] = n) => k[n] = "dir"}

\* The proper ancestors of n below the root.
RECURSIVE AncestorsIn(_, _)
AncestorsIn(p, n) ==
    IF n = Root \/ p[n] = Root THEN {} ELSE {p[n]} \cup AncestorsIn(p, p[n])

Ancestors(n) == AncestorsIn(parent, n)

\* A set of entries as a sequence in increasing order.
RECURSIVE Ascending(_)
Ascending(S) ==
    IF S = {} THEN <<>>
    ELSE LET m == CHOOSE x \in S : \A y \in S : x <= y
         IN  <<m>> \o Ascending(S \ {m})

\* Mutant: every directory below the root also holds a link to itself.
listdir_linked(d) == Ascending({c \in Nodes : parent[c] = d \/ c = d})

\* os.listdir(d) when it succeeds: the entries of d, in the order the
\* file system reports them.
listdir(d) == Ascending({c \in Nodes : parent[c] = d})

\* Path.is_dir
is_dir(n) == kind[n] = "dir"

\* Path.is_file
is_file(n) == kind[n] = "file"

\* ------------------------------------------------------------------------
\* Handlers
\* ------------------------------------------------------------------------

\* vars(Handlers): the names in the class namespace.
VarsOfHandlers ==
    {"__module__", "strict", "warn", "ignore", "_resolve",
     "__dict__", "__weakref__", "__doc__"}

\* The dict literal of _resolve.
PolicyTable ==
    [strict |-> Func("Handlers.strict"),
     warn   |-> Func("Handlers.warn"),
     ignore |-> Func("Handlers.ignore")]

\* callable(param)
callable(param) == param.t = "function"

ValueError(msg) == [type |-> "ValueError", msg |-> msg]
KeyError(key)   == [type |-> "KeyError", msg |-> key]

\* Handlers._resolve: the handler, or the exception it raises.
Handlers_resolve(param) ==
    LET msg == "invalid errors parameter" IN
    IF param.t = "str"
    THEN IF param.v \notin VarsOfHandlers
         THEN [raised |-> TRUE, exc |-> ValueError(msg)]
         ELSE IF param.v \in DOMAIN PolicyTable
              THEN [raised |-> FALSE, value |-> PolicyTable[param.v]]
              ELSE [raised |-> TRUE, exc |-> KeyError(param.v)]
    ELSE IF ~callable(param)
         THEN [raised |-> TRUE, exc |-> ValueError(msg)]
         ELSE [raised |-> FALSE, value |-> param]

\* Mutant: every handler raises, also ignore, warn and the caller's.
CallHandler_always_raises(fn, e) == [raised |-> TRUE, exc |-> e]

\* Mutant: strict raises a new exception in place of the one handled.
CallHandler_wraps(fn, e) ==
    IF fn = Func("Handlers.strict")
    THEN [raised |-> TRUE, exc |-> ValueError("walk failed")]
    ELSE [raised |-> FALSE]

\* Calling a handler while exception e is being handled: Handlers.strict
\* re-raises e (a bare raise); warn, ignore and a caller's handler return.
CallHandler(fn, e) ==
    IF fn = Func("Handlers.strict")
    THEN [raised |-> TRUE, exc |-> e]
    ELSE [raised |-> FALSE]

\* ------------------------------------------------------------------------
\* matchers
\* ------------------------------------------------------------------------

\* matchers.load
load(param) ==
    IF param.t = "str" THEN [t |-> "Pattern", v |-> param.v]
    ELSE IF param # None THEN param
    ELSE [t |-> "Null", v |-> "Null"]

\* match(child): Null answers True; a Pattern (or a predicate) answers as
\* the name of child decides.
MatchOutcomes(m, c) == IF m.t = "Null" THEN {TRUE} ELSE BOOLEAN

\* ------------------------------------------------------------------------
\* Traversal
\* ------------------------------------------------------------------------

\* functools.partial(self.follow, item)
partial(fn, arg) == [t |-> "partial", v |-> fn, arg |-> arg]

\* What the consumer sends when it resumes the generator: next() sends
\* None, Traversal.__call__ sends partial(self.follow, item).
Send(drv, it) == IF drv = "Traversal" THEN partial("follow", it) ELSE None

\* ------------------------------------------------------------------------
\* Path.walk
\* ------------------------------------------------------------------------

\* A walk generator: its self, its childList and how many it has taken.
Frame(d) == [self |-> d, childList |-> <<>>, i |-> 0]

Top == stack[Len(stack)]

\* The loop variable child of the innermost generator.
child == Top.childList[Top.i]

\* The exception os.listdir(d) raises.
ListError(d) == [type |-> "OSError", origin |-> "listdir", at |-> d]

\* The exception follow(n) raises.
FollowError(n) == [type |-> "Exception", origin |-> "follow", at |-> n]

\* Mutant: the return of a nested generator ends the whole walk.
Return_ends_walk ==
    /\ stack' = <<>>
    /\ pc' = "done"

\* The innermost generator returns: its caller's yield from ends and the
\* caller goes on with its loop; the outermost one ends the walk.
Return ==
    /\ stack' = SubSeq(stack, 1, Len(stack) - 1)
    /\ pc' = IF Len(stack) = 1 THEN "done" ELSE "next"

\* error_fn(msg) inside an except block handling e; after says how the
\* generator goes on when the handler returns.
Handle(what, path, e, after) ==
    /\ handlerLog' = Append(handlerLog, [fn |-> error_fn, what |-> what, path |-> path])
    /\ LET r == CallHandler(error_fn, e) IN
       IF r.raised
       THEN /\ exc' = r.exc
            /\ pc' = "raised"
            /\ stack' = <<>>
       ELSE /\ exc' = exc
            /\ after

\* The first next() on the generator: resolve errors, load match.
walk_start ==
    /\ pc = "new"
    /\ LET r == Handlers_resolve(errors) IN
       IF r.raised
       THEN /\ exc' = r.exc
            /\ pc' = "raised"
            /\ UNCHANGED <<error_fn, match, stack>>
       ELSE /\ error_fn' = r.value
            /\ match' = load(matchParam)
            /\ stack' = <<Frame(Root)>>
            /\ pc' = "list"
            /\ exc' = exc
    /\ UNCHANGED <<libVars, maskVars, cfgVars, traverse, item, yielded, listing, matchRes,
                   followLog, handlerLog>>

\* Whether os.listdir(d) can succeed: not on a regular file
\* (NotADirectoryError).
CanList(d) == IF d = Root THEN TRUE ELSE is_dir(d)

\* childList = self.iterdir(), or the except branch.
walk_list ==
    /\ pc = "list"
    /\ \E ok \in BOOLEAN :
        /\ ok => CanList(Top.self)
        /\ listing' = [listing EXCEPT ![Top.self] = IF ok THEN "ok" ELSE "fail"]
        /\ IF ok
           THEN /\ stack' = [stack EXCEPT ![Len(stack)].childList = listdir(Top.self)]
                /\ pc' = "next"
                /\ UNCHANGED <<exc, handlerLog>>
           ELSE Handle("list", Top.self, ListError(Top.self), Return)
    /\ UNCHANGED <<libVars, maskVars, cfgVars, error_fn, match, traverse, item, yielded, matchRes,
                   followLog>>

\* for child in childList: the next child, or the end of the generator.
walk_next ==
    /\ pc = "next"
    /\ IF Top.i < Len(Top.childList)
       THEN /\ stack' = [stack EXCEPT ![Len(stack)].i = @ + 1]
            /\ traverse' = None
            /\ pc' = "match"
       ELSE /\ Return
            /\ UNCHANGED traverse
    /\ UNCHANGED <<libVars, maskVars, cfgVars, error_fn, match, item, yielded, listing, matchRes,
                   followLog, handlerLog, exc>>

\* Mutant: only a matching regular file is yielded.
walk_match_files_only ==
    /\ pc = "match"
    /\ \E m \in MatchOutcomes(match, child) :
        /\ matchRes' = [matchRes EXCEPT ![child] = IF m THEN "T" ELSE "F"]
        /\ IF m /\ is_file(child)
           THEN /\ yielded' = Append(yielded, child)
                /\ item' = child
                /\ pc' = "yield"
           ELSE /\ pc' = "decide"
                /\ UNCHANGED <<yielded, item>>
    /\ UNCHANGED <<libVars, maskVars, cfgVars, error_fn, match, stack, traverse, listing,
                   followLog, handlerLog, exc>>

\* if match(child): yield child.
walk_match ==
    /\ pc = "match"
    /\ \E m \in MatchOutcomes(match, child) :
        /\ matchRes' = [matchRes EXCEPT ![child] = IF m THEN "T" ELSE "F"]
        /\ IF m
           THEN /\ yielded' = Append(yielded, child)
                /\ item' = child
                /\ pc' = "yield"
           ELSE /\ pc' = "decide"
                /\ UNCHANGED <<yielded, item>>
    /\ UNCHANGED <<libVars, maskVars, cfgVars, error_fn, match, stack, traverse, listing,
                   followLog, handlerLog, exc>>

\* The consumer resumes the generator: traverse = yield child.
walk_resume ==
    /\ pc = "yield"
    /\ traverse' = Send(driver, item)
    /\ pc' = "decide"
    /\ UNCHANGED <<libVars, maskVars, cfgVars, error_fn, match, stack, item, yielded, listing,
                   matchRes, followLog, handlerLog, exc>>

\* Mutant: the value the consumer sent is dropped.
Traverse_ignores_sent == partial("is_dir", child)

\* traverse = traverse or child.is_dir
Traverse == IF traverse # None THEN traverse ELSE partial("is_dir", child)

\* Mutant: by default only a directory that matched is descended into.
CallOutcomes_matching_only(t) ==
    IF t.v = "is_dir"
    THEN {IF is_dir(t.arg) /\ matchRes[t.arg] = "T" THEN "T" ELSE "F"}
    ELSE {"T", "F", "raise"}

\* traverse(): is_dir answers from the file system; follow answers True,
\* False or raises.
CallOutcomes(t) ==
    IF t.v = "is_dir"
    THEN {IF is_dir(t.arg) THEN "T" ELSE "F"}
    ELSE {"T", "F", "raise"}

\* Mutant: return in place of continue.
Continue_returns == Return

\* continue: the generator goes on with the next child of its loop.
Continue ==
    /\ pc' = "next"
    /\ stack' = stack

\* do_traverse = traverse(), its except branch, and the recursive
\* child.walk(errors=error_fn, match=match) started by yield from.
walk_decide ==
    /\ pc = "decide"
    /\ \E r \in CallOutcomes(Traverse) :
        /\ followLog' = IF Traverse.v = "follow"
                        THEN Append(followLog, [item |-> Traverse.arg, result |-> r])
                        ELSE followLog
        /\ CASE r = "raise" ->
                  /\ Handle("access", child, FollowError(Traverse.arg), Continue)
                  /\ UNCHANGED <<error_fn, match>>
             [] r = "T" ->
                  /\ error_fn' = Handlers_resolve(error_fn).value
                  /\ match' = load(match)
                  /\ stack' = Append(stack, Frame(child))
                  /\ pc' = "list"
                  /\ UNCHANGED <<handlerLog, exc>>
             [] r = "F" ->
                  /\ pc' = "next"
                  /\ UNCHANGED <<error_fn, match, stack, handlerLog, exc>>
    /\ UNCHANGED <<libVars, maskVars, cfgVars, traverse, item, yielded, listing, matchRes>>

\* next() on a generator that an exception has left: StopIteration.
walk_exhausted ==
    /\ pc = "raised"
    /\ pc' = "done"
    /\ UNCHANGED <<libVars, maskVars, cfgVars, error_fn, match, stack, traverse, item, yielded,
                   listing, matchRes, followLog, handlerLog, exc>>

\* The values of errors= the model tries.
ErrorsParams ==
    {Str("strict"), Str("warn"), Str("ignore"), Str("raise"), Str("_resolve"),
     Func("handler"), [t |-> "int", v |-> "42"]}

\* The values of match= the model tries.
MatchParams == {None, Str("pattern")}

\* No chmod is in progress.
MaskIdle ==
    /\ clauses = <<>>
    /\ mode = <<>>
    /\ mask = None
    /\ st_mode = 0
    /\ new_mode = None

\* No path operation is in progress.
PathIdle ==
    /\ module = "posixpath"
    /\ cwd = <<"/">>
    /\ self = <<>>
    /\ dest = <<>>
    /\ result = None

\* No chain of operations is in progress.
ClassIdle ==
    /\ obj = <<>>
    /\ start = <<>>
    /\ last = None
    /\ nops = 0

\* No Multi value is in use.
MultiIdle ==
    /\ os_path = "posixpath"
    /\ mcls = <<>>
    /\ input = <<>>
    /\ value = None
    /\ made = None
    /\ items = None

\* No directory is being listed.
ListdirIdle ==
    /\ dir_module = "posixpath"
    /\ entries = <<>>
    /\ matchArg = None
    /\ listed = None

\* No file is being rewritten in place.
InplaceIdle ==
    /\ disk = [file |-> [exists |-> FALSE, data |-> <<>>], backup_fn |-> [exists |-> FALSE, data |-> <<>>]]
    /\ open_mode = {}
    /\ original = <<>>
    /\ readable = None
    /\ writable = None
    /\ ip_pc = "call"
    /\ ip_exc = NoExc

\* No Path is in use as a context manager.
ChdirIdle ==
    /\ workdir = "/"
    /\ old_dir = [p \in {"p", "q"} |-> "unset"]
    /\ blocks = <<>>
    /\ event = None
    /\ unwinding = NoExc
    /\ chdirs = 0

\* No TempDir is in use.
TempdirIdle ==
    /\ tmp = <<>>
    /\ tmp_before = <<>>
    /\ td = None
    /\ entered = None
    /\ td_pc = "new"
    /\ td_exc = NoExc
    /\ td_log = <<>>

\* No directory is being made or removed.
DirsIdle ==
    /\ volume = <<>>
    /\ volume_before = <<>>
    /\ protected = {}
    /\ notempty_errno = "ENOTEMPTY"
    /\ dcall = None
    /\ doutcome = None

\* No Permissions value is in use.
PermsIdle ==
    /\ perms = None
    /\ shown = None

\* No lines are being written.
LinesIdle ==
    /\ text = <<>>
    /\ text_before = <<>>
    /\ given = <<>>
    /\ appending = FALSE
    /\ linesep = <<"LF">>
    /\ written = FALSE

\* No time of a file is being set.
TimesIdle ==
    /\ stat = [st_atime_ns |-> 0, st_mtime_ns |-> 0]
    /\ stat_before = [st_atime_ns |-> 0, st_mtime_ns |-> 0]
    /\ assigned = [attr |-> "none", value |-> 0, done |-> FALSE]

\* No Pattern object is in use.
PatternIdle ==
    /\ pat_obj = [t |-> "Pattern", v |-> <<>>]
    /\ pat_calls = <<>>

\* Outside walk and chmod nothing but the path component is in use.
PathElseIdle ==
    /\ ClassIdle
    /\ MultiIdle
    /\ ListdirIdle
    /\ InplaceIdle
    /\ ChdirIdle
    /\ TempdirIdle
    /\ DirsIdle
    /\ PermsIdle
    /\ LinesIdle
    /\ TimesIdle
    /\ PatternIdle

\* Outside walk and chmod nothing but the class component is in use.
ClassElseIdle ==
    /\ PathIdle
    /\ MultiIdle
    /\ ListdirIdle
    /\ InplaceIdle
    /\ ChdirIdle
    /\ TempdirIdle
    /\ DirsIdle
    /\ PermsIdle
    /\ LinesIdle
    /\ TimesIdle
    /\ PatternIdle

\* Outside walk and chmod nothing but the multi component is in use.
MultiElseIdle ==
    /\ PathIdle
    /\ ClassIdle
    /\ ListdirIdle
    /\ InplaceIdle
    /\ ChdirIdle
    /\ TempdirIdle
    /\ DirsIdle
    /\ PermsIdle
    /\ LinesIdle
    /\ TimesIdle
    /\ PatternIdle

\* Outside walk and chmod nothing but the listdir component is in use.
ListdirElseIdle ==
    /\ PathIdle
    /\ ClassIdle
    /\ MultiIdle
    /\ InplaceIdle
    /\ ChdirIdle
    /\ TempdirIdle
    /\ DirsIdle
    /\ PermsIdle
    /\ LinesIdle
    /\ TimesIdle
    /\ PatternIdle

\* Outside walk and chmod nothing but the inplace component is in use.
InplaceElseIdle ==
    /\ PathIdle
    /\ ClassIdle
    /\ MultiIdle
    /\ ListdirIdle
    /\ ChdirIdle
    /\ TempdirIdle
    /\ DirsIdle
    /\ PermsIdle
    /\ LinesIdle
    /\ TimesIdle
    /\ PatternIdle

\* Outside walk and chmod nothing but the chdir component is in use.
ChdirElseIdle ==
    /\ PathIdle
    /\ ClassIdle
    /\ MultiIdle
    /\ ListdirIdle
    /\ InplaceIdle
    /\ TempdirIdle
    /\ DirsIdle
    /\ PermsIdle
    /\ LinesIdle
    /\ TimesIdle
    /\ PatternIdle

\* Outside walk and chmod nothing but the tempdir component is in use.
TempdirElseIdle ==
    /\ PathIdle
    /\ ClassIdle
    /\ MultiIdle
    /\ ListdirIdle
    /\ InplaceIdle
    /\ ChdirIdle
    /\ DirsIdle
    /\ PermsIdle
    /\ LinesIdle
    /\ TimesIdle
    /\ PatternIdle

\* Outside walk and chmod nothing but the dirs component is in use.
DirsElseIdle ==
    /\ PathIdle
    /\ ClassIdle
    /\ MultiIdle
    /\ ListdirIdle
    /\ InplaceIdle
    /\ ChdirIdle
    /\ TempdirIdle
    /\ PermsIdle
    /\ LinesIdle
    /\ TimesIdle
    /\ PatternIdle

\* Outside walk and chmod nothing but the perms component is in use.
PermsElseIdle ==
    /\ PathIdle
    /\ ClassIdle
    /\ MultiIdle
    /\ ListdirIdle
    /\ InplaceIdle
    /\ ChdirIdle
    /\ TempdirIdle
    /\ DirsIdle
    /\ LinesIdle
    /\ TimesIdle
    /\ PatternIdle

\* Outside walk and chmod nothing but the lines component is in use.
LinesElseIdle ==
    /\ PathIdle
    /\ ClassIdle
    /\ MultiIdle
    /\ ListdirIdle
    /\ InplaceIdle
    /\ ChdirIdle
    /\ TempdirIdle
    /\ DirsIdle
    /\ PermsIdle
    /\ TimesIdle
    /\ PatternIdle

\* Outside walk and chmod nothing but the times component is in use.
TimesElseIdle ==
    /\ PathIdle
    /\ ClassIdle
    /\ MultiIdle
    /\ ListdirIdle
    /\ InplaceIdle
    /\ ChdirIdle
    /\ TempdirIdle
    /\ DirsIdle
    /\ PermsIdle
    /\ LinesIdle
    /\ PatternIdle

\* Outside walk and chmod nothing but the pattern component is in use.
PatternElseIdle ==
    /\ PathIdle
    /\ ClassIdle
    /\ MultiIdle
    /\ ListdirIdle
    /\ InplaceIdle
    /\ ChdirIdle
    /\ TempdirIdle
    /\ DirsIdle
    /\ PermsIdle
    /\ LinesIdle
    /\ TimesIdle

\* Nothing outside walk and chmod is in progress.
LibIdle ==
    /\ PathIdle
    /\ ClassIdle
    /\ MultiIdle
    /\ ListdirIdle
    /\ InplaceIdle
    /\ ChdirIdle
    /\ TempdirIdle
    /\ DirsIdle
    /\ PermsIdle
    /\ LinesIdle
    /\ TimesIdle
    /\ PatternIdle

InitWalk ==
    /\ MaskIdle
    /\ LibIdle
    /\ parent \in ParentVectors
    /\ kind \in KindsOf(parent)
    /\ errors \in ErrorsParams
    /\ matchParam \in MatchParams
    /\ driver \in {"plain", "Traversal"}
    /\ error_fn = None
    /\ match = None
    /\ stack = <<>>
    /\ pc = "new"
    /\ traverse = None
    /\ item = None
    /\ yielded = <<>>
    /\ listing = [d \in {Root} \cup Nodes |-> "?"]
    /\ matchRes = [n \in Nodes |-> "?"]
    /\ followLog = <<>>
    /\ handlerLog = <<>>
    /\ exc = NoExc

NextWalk ==
    \/ walk_start
    \/ walk_list
    \/ walk_next
    \/ walk_match
    \/ walk_resume
    \/ walk_decide
    \/ walk_exhausted

Spec == InitWalk /\ [][NextWalk]_vars

\* ------------------------------------------------------------------------
\* Properties of the walk
\* ------------------------------------------------------------------------

\* The items yielded so far, as a set.
Yielded == {yielded[i] : i \in DOMAIN yielded}

\* The position of a yielded item in the output.
Pos(n) == CHOOSE i \in DOMAIN yielded : yielded[i] = n

\* The directories on the way from the root to n, the root included.
Above(n) == Ancestors(n) \cup {Root}

\* The items of the subtree of d, d excluded.
Below(d) == {n \in Nodes : d \in Ancestors(n)}

\* The outcome of follow(n), or "?" when follow was not called with n.
Followed(n) ==
    IF \E i \in DOMAIN followLog : followLog[i].item = n
    THEN followLog[CHOOSE i \in DOMAIN followLog : followLog[i].item = n].result
    ELSE "?"

\* The walk has ended and no exception has left it.
EndedNormally == pc = "done" /\ exc = NoExc

\* s comes after c in the listing of the directory that holds both.
LaterSibling(c, s) == parent[s] = parent[c] /\ s > c

\* C1 as stated: in any walk (any filter, error policy and descent
\* decisions) an item is yielded only after every one of its ancestor
\* directories below the root has been yielded.
C1_AncestorsYieldedFirst ==
    \A i \in DOMAIN yielded :
        \A a \in Ancestors(yielded[i]) :
            \E j \in 1 .. i - 1 : yielded[j] = a

\* C1 amended: in any walk an item is yielded only after every one of its
\* ancestor directories below the root that satisfies the match filter
\* (every such ancestor when there is no filter) has been yielded; every
\* ancestor has been put to the filter before.
C1_MatchingAncestorsYieldedFirst ==
    \A i \in DOMAIN yielded :
        \A a \in Ancestors(yielded[i]) :
            /\ matchRes[a] # "?"
            /\ matchRes[a] = "T" => \E j \in 1 .. i - 1 : yielded[j] = a
            /\ match.t = "Null" => matchRes[a] = "T"

\* An item two levels down is yielded under a filter and caller-made
\* descent decisions, one ancestor matching and one not.
C1_Witness ==
    /\ driver = "Traversal"
    /\ match.t = "Pattern"
    /\ \E n \in Yielded :
        /\ \E a \in Ancestors(n) : matchRes[a] = "T" /\ Pos(a) < Pos(n)
        /\ \E b \in Ancestors(n) : matchRes[b] = "F"

\* C2: with no match filter and the default descent decision the output is
\* in depth-first pre-order: a directory comes before the items of its
\* subtree, these are contiguous, they all come before any later sibling
\* of the directory and its subtree, and when nothing fails the whole
\* subtree is yielded.
C2_PreOrder ==
    (driver = "plain" /\ matchParam = None) =>
        /\ \A i, j \in DOMAIN yielded :
              yielded[i] \in Ancestors(yielded[j]) => i < j
        /\ \A i, j, k \in DOMAIN yielded :
              (i < j /\ j < k /\ yielded[i] \in Ancestors(yielded[k]))
                  => yielded[i] \in Ancestors(yielded[j])
        /\ \A i, j \in DOMAIN yielded :
              (\E d, e \in Nodes :
                  /\ LaterSibling(d, e)
                  /\ yielded[i] \in {d} \cup Below(d)
                  /\ yielded[j] \in {e} \cup Below(e)) => i < j
        /\ \A i \in DOMAIN yielded : \A j \in DOMAIN yielded :
              yielded[i] = yielded[j] => i = j
        /\ (EndedNormally /\ handlerLog = <<>>) => Yielded = Nodes

\* A directory, the item inside it and then a later sibling were yielded
\* by a walk with no filter and default descent.
C2_Witness ==
    /\ driver = "plain"
    /\ matchParam = None
    /\ EndedNormally
    /\ \E d, c, e \in Yielded :
        /\ parent[c] = d
        /\ LaterSibling(d, e)
        /\ Pos(d) + 1 = Pos(c)
        /\ Pos(c) < Pos(e)

\* C3: under errors='ignore' or 'warn' the walk never raises, yields
\* nothing from inside a directory that failed to list, and, once ended,
\* has put to the filter every item all of whose ancestor directories
\* listed and yielded those that match; a root that fails to list gives an
\* empty walk that ends normally.
C3_TotalOnDamagedTree ==
    errors \in {Str("ignore"), Str("warn")} =>
        /\ pc # "raised"
        /\ exc = NoExc
        /\ \A n \in Yielded : \A a \in Above(n) : listing[a] = "ok"
        /\ pc = "done" =>
              \A n \in Nodes :
                  (\A a \in Above(n) : listing[a] = "ok") =>
                      /\ matchRes[n] # "?"
                      /\ matchRes[n] = "T" => n \in Yielded
        /\ listing[Root] = "fail" => (yielded = <<>> /\ pc = "done")

\* A directory with content failed to list, and a later sibling of it was
\* still yielded by a walk that ended.
C3_Witness ==
    /\ errors \in {Str("ignore"), Str("warn")}
    /\ pc = "done"
    /\ \E d, e \in Nodes :
        /\ listing[d] = "fail"
        /\ Below(d) # {}
        /\ LaterSibling(d, e)
        /\ e \in Yielded

\* C4: under Traversal(follow), follow is called once for each yielded
\* item, in the order yielded and before the next item is yielded; an item
\* inside a yielded directory d is yielded only if follow(d) was true, and
\* when follow(d) was true and d listed, every item of d that passes the
\* filter is yielded.
C4_TraversalFollow ==
    driver = "Traversal" =>
        /\ Len(followLog) <= Len(yielded)
        /\ Len(yielded) <= Len(followLog) + 1
        /\ pc \notin {"yield", "decide"} => Len(followLog) = Len(yielded)
        /\ \A i \in DOMAIN followLog : followLog[i].item = yielded[i]
        /\ \A d \in Yielded : \A c \in Yielded :
              d \in Ancestors(c) => Followed(d) = "T"
        /\ EndedNormally =>
              \A d \in Yielded : \A c \in Nodes :
                  (parent[c] = d /\ Followed(d) = "T" /\ listing[d] = "ok")
                      => /\ matchRes[c] # "?"
                         /\ matchRes[c] = "T" => c \in Yielded

\* follow was true for one yielded directory, whose item was yielded, and
\* false for another, whose item was not.
C4_Witness ==
    /\ driver = "Traversal"
    /\ EndedNormally
    /\ \E d, c \in Yielded : parent[c] = d /\ Followed(d) = "T"
    /\ \E d \in Yielded : \E c \in Nodes \ Yielded :
          parent[c] = d /\ Followed(d) = "F" /\ is_dir(d)

\* The regular files among the items walk yields (walkfiles).
walkfiles == SelectSeq(yielded, is_file)

\* The directories among the items walk yields (walkdirs).
walkdirs == SelectSeq(yielded, is_dir)

\* The set of the elements of a sequence.
Range(q) == {q[i] : i \in DOMAIN q}

\* C5: a walk with the default descent decision in which nothing fails
\* yields, each once, exactly the descendants of the root that satisfy the
\* filter, whatever the filter says of the directories holding them;
\* walkfiles and walkdirs give the regular files and the directories among
\* them.
C5_MatchFiltersOutputOnly ==
    (driver = "plain" /\ EndedNormally /\ handlerLog = <<>>) =>
        /\ \A n \in Nodes : matchRes[n] # "?"
        /\ Yielded = {n \in Nodes : matchRes[n] = "T"}
        /\ Len(yielded) = Cardinality(Yielded)
        /\ Range(walkfiles) = {n \in Nodes : matchRes[n] = "T" /\ kind[n] = "file"}
        /\ Range(walkdirs) = {n \in Nodes : matchRes[n] = "T" /\ kind[n] = "dir"}
        /\ Len(walkfiles) + Len(walkdirs) = Len(yielded)

\* A matching file inside a directory that does not match was yielded,
\* and a matching directory too.
C5_Witness ==
    /\ driver = "plain"
    /\ EndedNormally
    /\ handlerLog = <<>>
    /\ match.t = "Pattern"
    /\ \E n \in Yielded : is_file(n) /\ parent[n] # Root /\ matchRes[parent[n]] = "F"
    /\ \E d \in Yielded : is_dir(d)

\* C6: when the descent decision for a yielded child raises, error_fn is
\* called with the message naming that child, the child is never listed
\* and nothing inside it is yielded, the child stays in the output, and
\* when the handler returns the walk goes on with the later siblings in
\* listing order.
C6_DecisionErrorSkipsChild ==
    \A i \in DOMAIN followLog :
        followLog[i].result = "raise" =>
            LET c == followLog[i].item IN
            /\ \E h \in DOMAIN handlerLog :
                  handlerLog[h] = [fn |-> error_fn, what |-> "access", path |-> c]
            /\ listing[c] = "?"
            /\ Below(c) \cap Yielded = {}
            /\ c \in Yielded
            /\ error_fn # Func("Handlers.strict") =>
                  /\ pc # "raised"
                  /\ exc = NoExc
                  /\ \A s \in Yielded : LaterSibling(c, s) => Pos(c) < Pos(s)
                  /\ pc = "done" =>
                        \A s \in Nodes :
                            (LaterSibling(c, s) /\ listing[parent[c]] = "ok") =>
                                /\ matchRes[s] # "?"
                                /\ matchRes[s] = "T" => s \in Yielded

\* follow raised for a directory with content, the handler returned, and
\* the next sibling was yielded.
C6_Witness ==
    /\ pc = "done"
    /\ error_fn # Func("Handlers.strict")
    /\ \E c, s \in Yielded :
        /\ Followed(c) = "raise"
        /\ Below(c) # {}
        /\ LaterSibling(c, s)
        /\ Pos(c) + 1 = Pos(s)

\* The values of errors= that name a policy.
PolicyNames == {Str("strict"), Str("warn"), Str("ignore")}

\* C7 as stated: for every string other than 'strict', 'warn' and 'ignore'
\* and every value that is neither a string nor callable, the walk fails
\* with the 'invalid errors parameter' ValueError before any directory is
\* listed and any item is yielded.
C7_InvalidErrorsIsValueError ==
    (errors \notin PolicyNames /\ ~callable(errors) /\ pc # "new") =>
        /\ exc = ValueError("invalid errors parameter")
        /\ yielded = <<>>
        /\ \A d \in DOMAIN listing : listing[d] = "?"

\* The number of failures the environment has answered with.
Failures ==
    Cardinality({d \in DOMAIN listing : listing[d] = "fail"})
        + Cardinality({i \in DOMAIN followLog : followLog[i].result = "raise"})

\* The exception of the only failure so far.
TheFailure ==
    IF \E d \in DOMAIN listing : listing[d] = "fail"
    THEN ListError(CHOOSE d \in DOMAIN listing : listing[d] = "fail")
    ELSE FollowError(followLog[Len(followLog)].item)

\* C8, the state part: under 'strict' the first failure to list or to
\* decide ends the walk with the very exception of that failure.
C8_StrictState ==
    errors = Str("strict") =>
        /\ Failures <= 1
        /\ Failures = 1 =>
              /\ exc = TheFailure
              /\ pc \in {"raised", "done"}
              /\ stack = <<>>
        /\ Failures = 0 => exc = NoExc

\* C8: under the default policy 'strict' a failure to list a directory or
\* to evaluate a descent decision propagates the original exception at the
\* first such failure, and the walk yields no further item afterwards.
C8_StrictPropagatesOriginal ==
    /\ []C8_StrictState
    /\ [][exc # NoExc => (yielded' = yielded /\ exc' = exc)]_vars

\* Under 'strict' a walk that had yielded an item was ended by a failure
\* and was resumed once more.
C8_Witness ==
    /\ errors = Str("strict")
    /\ Failures = 1
    /\ yielded # <<>>
    /\ exc = TheFailure
    /\ pc = "done"

\* ------------------------------------------------------------------------
\* masks: symbolic modes.  A string is a sequence of characters.
\* ------------------------------------------------------------------------

\* Length of the longest clause (who, op and permissions) the model tries.
MaxClauseLen == 4

\* Number of clauses in the longest compound mode the model tries.
MaxClauses == 2

\* Bitwise and, or, exclusive or of Python ints that are not negative.
RECURSIVE BitAnd(_, _)
BitAnd(a, b) ==
    IF a = 0 \/ b = 0 THEN 0
    ELSE (a % 2) * (b % 2) + 2 * BitAnd(a \div 2, b \div 2)

RECURSIVE BitOr(_, _)
BitOr(a, b) ==
    IF a = 0 THEN b
    ELSE IF b = 0 THEN a
    ELSE (IF a % 2 = 1 \/ b % 2 = 1 THEN 1 ELSE 0) + 2 * BitOr(a \div 2, b \div 2)

RECURSIVE BitXor(_, _)
BitXor(a, b) ==
    IF a = 0 THEN b
    ELSE IF b = 0 THEN a
    ELSE ((a + b) % 2) + 2 * BitXor(a \div 2, b \div 2)

\* x << k
Shl(x, k) == x * 2 ^ k

\* spec_map = dict(r=4, w=2, x=1)
spec_map(perm) == CASE perm = "r" -> 4 [] perm = "w" -> 2 [] perm = "x" -> 1

\* shift_map = dict(u=6, g=3, o=0)
shift_map(subj) == CASE subj = "u" -> 6 [] subj = "g" -> 3 [] subj = "o" -> 0

\* functools.reduce(operator.or_, values, initial)
RECURSIVE reduce_or(_, _)
reduce_or(values, initial) ==
    IF values = <<>> THEN initial
    ELSE reduce_or(Tail(values), BitOr(initial, Head(values)))

\* who.replace('a', 'ugo')
RECURSIVE replace_a(_)
replace_a(who) ==
    IF who = <<>> THEN <<>>
    ELSE (IF Head(who) = "a" THEN <<"u", "g", "o">> ELSE <<Head(who)>>)
             \o replace_a(Tail(who))

\* The number of leading characters of str that are in chars.
RECURSIVE SpanOf(_, _)
SpanOf(str, chars) ==
    IF str = <<>> \/ Head(str) \notin chars THEN 0
    ELSE 1 + SpanOf(Tail(str), chars)

\* re.match('(?P<who>[ugoa]+)(?P<op>[-+=])(?P<what>[rwx]*)$', mode):
\* the groups, or None.
parsed(str) ==
    LET n    == SpanOf(str, {"u", "g", "o", "a"})
        rest == SubSeq(str, n + 2, Len(str))
    IN  IF /\ n >= 1
           /\ Len(str) > n
           /\ str[n + 1] \in {"-", "+", "="}
           /\ SpanOf(rest, {"r", "w", "x"}) = Len(rest)
        THEN [who |-> SubSeq(str, 1, n), op |-> str[n + 1], what |-> rest]
        ELSE None

\* simple(mode): the functools.partial it returns, or the ValueError.
simple(str) ==
    LET g == parsed(str) IN
    IF g = None
    THEN [raised |-> TRUE, exc |-> ValueError("Unrecognized symbolic mode")]
    ELSE
    LET spec   == reduce_or([i \in DOMAIN g.what |-> spec_map(g.what[i])], 0)
        who    == replace_a(g.who)
        masks  == [i \in DOMAIN who |-> Shl(spec, shift_map(who[i]))]
        mask0  == reduce_or(Tail(masks), Head(masks))
        mask1  == IF g.op = "-" THEN BitXor(mask0, 511) ELSE mask0
        fields == [i \in DOMAIN who |-> Shl(7, shift_map(who[i]))]
        retain == IF g.op = "="
                  THEN BitXor(reduce_or(Tail(fields), Head(fields)), 511)
                  ELSE 0
    IN  [raised |-> FALSE,
         value  |-> [op |-> g.op, mask |-> mask1, retain |-> retain]]

\* Mutant: '=' computed as target & (retain ^ mask).
ApplyMask_precedence(f, target) ==
    CASE f.op = "+" -> BitOr(f.mask, target)
      [] f.op = "-" -> BitAnd(f.mask, target)
      [] f.op = "=" -> BitAnd(target, BitXor(f.retain, f.mask))

\* Calling the partial simple returned: op_map[op](mask, target).
ApplyMask(f, target) ==
    CASE f.op = "+" -> BitOr(f.mask, target)
      [] f.op = "-" -> BitAnd(f.mask, target)
      [] f.op = "=" -> BitXor(BitAnd(target, f.retain), f.mask)

\* The number of characters of str before the first sep (all of them when
\* there is none).
RECURSIVE Before(_, _)
Before(str, sep) ==
    IF str = <<>> \/ Head(str) = sep THEN 0
    ELSE 1 + Before(Tail(str), sep)

\* mode.split(',')
RECURSIVE split(_)
split(str) ==
    LET n == Before(str, ",")
    IN  IF n = Len(str) THEN <<str>>
        ELSE <<SubSeq(str, 1, n)>> \o split(SubSeq(str, n + 2, Len(str)))

\* Mutant: the clauses are not reversed before they are composed.
reversed_missing(seq) == seq

\* reversed(seq)
RECURSIVE reversed(_)
reversed(seq) ==
    IF seq = <<>> THEN <<>> ELSE Append(reversed(Tail(seq)), Head(seq))

\* compose(*funcs)(x): reduce(compose_two, funcs) calls the functions from
\* the last to the first.
RECURSIVE compose(_, _)
compose(funcs, x) ==
    IF Len(funcs) = 1 THEN ApplyMask(funcs[1], x)
    ELSE ApplyMask(funcs[1], compose(Tail(funcs), x))

\* compound(mode): the functions map(simple, reversed(mode.split(',')))
\* gives, ready to be composed, or the first ValueError among them.
compound(str) ==
    LET cs == reversed(split(str))
        fs == [i \in DOMAIN cs |-> simple(cs[i])]
    IN  IF \E i \in DOMAIN fs : fs[i].raised
        THEN fs[CHOOSE i \in DOMAIN fs : fs[i].raised /\ \A j \in 1 .. i - 1 : ~fs[j].raised]
        ELSE [raised |-> FALSE, value |-> [i \in DOMAIN fs |-> fs[i].value]]

\* The numeric modes a mask is applied to: the nine permission bits.
Modes == 0 .. 511

\* The strings of length lo .. hi over chars.
StringsOver(chars, lo, hi) == UNION {[1 .. n -> chars] : n \in lo .. hi}

\* Every clause who op what of at most MaxClauseLen characters.
SimpleClauses ==
    {w \o <<o>> \o p :
        w \in StringsOver({"u", "g", "o", "a"}, 1, MaxClauseLen - 1),
        o \in {"-", "+", "="},
        p \in StringsOver({"r", "w", "x"}, 0, MaxClauseLen - 2)}
    \cap StringsOver({"u", "g", "o", "a", "-", "+", "=", "r", "w", "x"}, 2, MaxClauseLen)

\* The clauses of the doctests of simple and compound.
DocClauses ==
    {<<"u", "g", "o", "+", "r", "w", "x">>,
     <<"g", "o", "-", "x">>,
     <<"o", "-", "x">>,
     <<"a", "+", "x">>,
     <<"a", "=", "r", "w">>,
     <<"u", "=", "x">>,
     <<"g", "=">>,
     <<"a", "=", "r">>,
     <<"u", "+", "w">>,
     <<"g", "o", "b", "b", "l", "e", "d", "e", "e", "g", "o", "o", "k">>}

\* clauses joined by ','
RECURSIVE join(_)
join(cs) ==
    IF Len(cs) = 1 THEN cs[1] ELSE cs[1] \o <<",">> \o join(Tail(cs))

\* No walk is in progress.
WalkIdle ==
    /\ parent = [n \in Nodes |-> Root]
    /\ kind = [n \in Nodes |-> "dir"]
    /\ errors = Str("strict")
    /\ matchParam = None
    /\ driver = "plain"
    /\ error_fn = None
    /\ match = None
    /\ stack = <<>>
    /\ pc = "new"
    /\ traverse = None
    /\ item = None
    /\ yielded = <<>>
    /\ listing = [d \in {Root} \cup Nodes |-> "?"]
    /\ matchRes = [n \in Nodes |-> "?"]
    /\ followLog = <<>>
    /\ handlerLog = <<>>
    /\ exc = NoExc

\* chmod(mode) with a str: mask = masks.compound(mode)
chmod_compile ==
    /\ clauses # <<>>
    /\ mask = None
    /\ mask' = compound(mode)
    /\ UNCHANGED <<libVars, cfgVars, walkVars, clauses, mode, st_mode, new_mode>>

\* mode = mask(self.stat().st_mode)
chmod_apply ==
    /\ mask # None
    /\ ~mask.raised
    /\ new_mode = None
    /\ \E m \in Modes :
        /\ st_mode' = m
        /\ new_mode' = [t |-> "int", v |-> compose(mask.value, m)]
    /\ UNCHANGED <<libVars, cfgVars, walkVars, clauses, mode, mask>>

InitMask ==
    /\ WalkIdle
    /\ LibIdle
    /\ clauses \in {<<c>> : c \in SimpleClauses}
                   \cup StringsOver(DocClauses, 1, MaxClauses)
    /\ mode = join(clauses)
    /\ mask = None
    /\ st_mode = 0
    /\ new_mode = None

NextMask ==
    \/ chmod_compile
    \/ chmod_apply

SpecMask == InitMask /\ [][NextMask]_vars

\* ------------------------------------------------------------------------
\* Properties of the masks
\* ------------------------------------------------------------------------

\* chmod has applied the mask.
Applied == new_mode # None

\* The clauses applied one after the other in the order written, each to
\* the output of the one before.
RECURSIVE InOrderWritten(_, _)
InOrderWritten(cs, m) ==
    IF cs = <<>> THEN m
    ELSE InOrderWritten(Tail(cs), ApplyMask(simple(Head(cs)).value, m))

\* C9: compound('c1,...,cn')(m) is simple(cn)(...simple(c1)(m)...): the
\* clauses are applied in the order written, each to the output of the one
\* before, and 'a=r,u+w' applied to 0 gives 0o644.
C9_CompoundInOrderWritten ==
    /\ Applied => new_mode.v = InOrderWritten(clauses, st_mode)
    /\ (Applied /\ st_mode = 0
            /\ clauses = <<<<"a", "=", "r">>, <<"u", "+", "w">>>>)
          => new_mode.v = 420

\* Two clauses that touch the same bits were applied and the one written
\* last decided them: the other order gives another mode.
C9_Witness ==
    /\ Applied
    /\ Len(clauses) = 2
    /\ new_mode.v = InOrderWritten(clauses, st_mode)
    /\ new_mode.v # InOrderWritten(reversed(clauses), st_mode)

\* The bits set in n, bit 0 the lowest.
Bits(n) == {i \in 0 .. 15 : (n \div 2 ^ i) % 2 = 1}

\* The place of the op character in a clause.
OpAt(c) == CHOOSE i \in DOMAIN c : c[i] \in {"-", "+", "="}

\* The subjects a who string refers to, 'a' standing for u, g and o.
Subjects(who) ==
    UNION {IF who[i] = "a" THEN {"u", "g", "o"} ELSE {who[i]} : i \in DOMAIN who}

\* The lowest bit of a subject's 3-bit field.
FieldBase(subj) == CASE subj = "u" -> 6 [] subj = "g" -> 3 [] subj = "o" -> 0

\* The bit of a permission inside a field.
PermBit(perm) == CASE perm = "r" -> 2 [] perm = "w" -> 1 [] perm = "x" -> 0

\* S: the permissions of clause c in the field of each referenced subject.
SBits(c) ==
    {FieldBase(subj) + PermBit(c[j]) :
        subj \in Subjects(SubSeq(c, 1, OpAt(c) - 1)), j \in OpAt(c) + 1 .. Len(c)}

\* R: the whole fields of the referenced subjects of clause c.
RBits(c) ==
    {FieldBase(subj) + b : subj \in Subjects(SubSeq(c, 1, OpAt(c) - 1)), b \in 0 .. 2}

\* C10: for every mode m in 0..0o777, non-empty who and perms,
\* simple(who+perms)(m) is m OR S, simple(who-perms)(m) is m AND NOT S and
\* simple(who=perms)(m) is (m AND NOT R) OR S; the bits of the subjects
\* not referenced never change.
C10_SimpleSemantics ==
    (Applied /\ Len(clauses) = 1 /\ clauses[1] \in SimpleClauses) =>
        LET c   == clauses[1]
            f   == simple(c)
            out == Bits(ApplyMask(f.value, st_mode))
            m   == Bits(st_mode)
        IN  /\ ~f.raised
            /\ new_mode.v = ApplyMask(f.value, st_mode)
            /\ c[OpAt(c)] = "+" => out = m \cup SBits(c)
            /\ c[OpAt(c)] = "-" => out = m \ SBits(c)
            /\ c[OpAt(c)] = "=" => out = (m \ RBits(c)) \cup SBits(c)
            /\ \A i \in 0 .. 15 : i \notin RBits(c) => (i \in out <=> i \in m)

\* An '=' clause naming two subjects was applied to a mode with bits set
\* in referenced and in unreferenced fields, and cleared some.
C10_Witness ==
    /\ Applied
    /\ Len(clauses) = 1
    /\ clauses[1] \in SimpleClauses
    /\ clauses[1][OpAt(clauses[1])] = "="
    /\ Cardinality(RBits(clauses[1])) = 6
    /\ SBits(clauses[1]) # {}
    /\ Bits(st_mode) \ RBits(clauses[1]) # {}
    /\ (Bits(st_mode) \cap RBits(clauses[1])) \ SBits(clauses[1]) # {}
    /\ Bits(new_mode.v) = (Bits(st_mode) \ RBits(clauses[1])) \cup SBits(clauses[1])

\* ---------------------------------------------------------------------
\* Path strings.  A string is a sequence of one-character strings; the
\* functions of a path module (posixpath, ntpath) are computed on the
\* characters as the module computes them.  Of ntpath the UNC form
\* (two leading separators) is left out: no input below begins with it.

\* The deepest path the model lets an operand of relpathto name.
MaxDepth == 2

\* The longest path string the model splits.
MaxPathLen == 5

curdir == <<".">>
pardir == <<".", ".">>

\* module.sep
sep(m) == IF m = "posixpath" THEN "/" ELSE "\\"

\* the characters a module takes for separators (sep and altsep)
seps(m) == IF m = "posixpath" THEN {"/"} ELSE {"\\", "/"}

\* str.lower, on the letters the model uses
lower(s) ==
    [i \in DOMAIN s |->
        CASE s[i] = "A" -> "a"
          [] s[i] = "B" -> "b"
          [] s[i] = "C" -> "c"
          [] s[i] = "D" -> "d"
          [] s[i] = "S" -> "s"
          [] OTHER -> s[i]]

\* str.rstrip(chars)
rstrip(s, chars) ==
    LET keep == {i \in DOMAIN s : s[i] \notin chars}
    IN  IF keep = {} THEN <<>>
        ELSE SubSeq(s, 1, CHOOSE i \in keep : \A j \in keep : j <= i)

\* str.lstrip(chars)
lstrip(s, chars) ==
    LET keep == {i \in DOMAIN s : s[i] \notin chars}
    IN  IF keep = {} THEN <<>>
        ELSE SubSeq(s, CHOOSE i \in keep : \A j \in keep : i <= j, Len(s))

\* str.split(c) for a one-character separator
RECURSIVE str_split(_, _)
str_split(s, c) ==
    IF \A i \in DOMAIN s : s[i] # c THEN <<s>>
    ELSE LET k == CHOOSE i \in DOMAIN s :
                      s[i] = c /\ \A j \in 1 .. i - 1 : s[j] # c
         IN  <<SubSeq(s, 1, k - 1)>> \o str_split(SubSeq(s, k + 1, Len(s)), c)

\* c.join(parts) for a one-character separator
RECURSIVE str_join(_, _)
str_join(parts, c) ==
    IF parts = <<>> THEN <<>>
    ELSE IF Len(parts) = 1 THEN parts[1]
    ELSE parts[1] \o <<c>> \o str_join(Tail(parts), c)

\* module.normcase
normcase(m, s) ==
    IF m = "posixpath" THEN s
    ELSE lower([i \in DOMAIN s |-> IF s[i] = "/" THEN "\\" ELSE s[i]])

\* module.splitdrive
splitdrive(m, p) ==
    IF m = "ntpath" /\ Len(p) >= 2 /\ p[2] = ":"
    THEN <<SubSeq(p, 1, 2), SubSeq(p, 3, Len(p))>>
    ELSE <<<<>>, p>>

\* module.split
module_split(m, p) ==
    LET dp   == splitdrive(m, p)
        at   == {i \in DOMAIN dp[2] : dp[2][i] \in seps(m)}
        i    == IF at = {} THEN 0 ELSE CHOOSE k \in at : \A j \in at : j <= k
        head == SubSeq(dp[2], 1, i)
        tail == SubSeq(dp[2], i + 1, Len(dp[2]))
        cut  == IF rstrip(head, seps(m)) = <<>> THEN head
                ELSE rstrip(head, seps(m))
    IN  <<dp[1] \o cut, tail>>

\* One step of posixpath.join's loop.
posix_join_step(a, b) ==
    IF b # <<>> /\ b[1] = "/" THEN b
    ELSE IF a = <<>> \/ a[Len(a)] = "/" THEN a \o b
    ELSE a \o <<"/">> \o b

\* One step of ntpath.join's loop, on the drive and path joined so far.
nt_join_step(acc, p) ==
    LET pd == splitdrive("ntpath", p)
    IN  IF pd[2] # <<>> /\ pd[2][1] \in seps("ntpath")
        THEN [drive |-> IF pd[1] # <<>> \/ acc.drive = <<>> THEN pd[1]
                        ELSE acc.drive,
              path  |-> pd[2]]
        ELSE IF pd[1] # <<>> /\ pd[1] # acc.drive
                /\ lower(pd[1]) # lower(acc.drive)
        THEN [drive |-> pd[1], path |-> pd[2]]
        ELSE [drive |-> IF pd[1] # <<>> /\ pd[1] # acc.drive THEN pd[1]
                        ELSE acc.drive,
              path  |-> (IF acc.path # <<>>
                            /\ acc.path[Len(acc.path)] \notin seps("ntpath")
                         THEN acc.path \o <<"\\">> ELSE acc.path) \o pd[2]]

RECURSIVE posix_join(_, _)
posix_join(a, others) ==
    IF others = <<>> THEN a
    ELSE posix_join(posix_join_step(a, others[1]), Tail(others))

RECURSIVE nt_join(_, _)
nt_join(acc, others) ==
    IF others = <<>> THEN acc
    ELSE nt_join(nt_join_step(acc, others[1]), Tail(others))

\* module.join(first, *others)
module_join(m, first, others) ==
    IF m = "posixpath" THEN posix_join(first, others)
    ELSE LET fd  == splitdrive(m, first)
             acc == nt_join([drive |-> fd[1], path |-> fd[2]], others)
         IN  IF acc.path # <<>> /\ acc.path[1] \notin seps(m)
                /\ acc.drive # <<>> /\ acc.drive[Len(acc.drive)] # ":"
             THEN acc.drive \o <<"\\">> \o acc.path
             ELSE acc.drive \o acc.path

\* module.isabs
isabs(m, s) ==
    IF m = "posixpath" THEN s # <<>> /\ s[1] = "/"
    ELSE LET n == normcase(m, SubSeq(s, 1, IF Len(s) < 3 THEN Len(s) ELSE 3))
         IN  \/ n # <<>> /\ n[1] = "\\"
             \/ Len(n) = 3 /\ n[2] = ":" /\ n[3] = "\\"

\* The loop of normpath over the components: the components kept so far.
RECURSIVE new_comps(_, _, _)
new_comps(comps, kept, rooted) ==
    IF comps = <<>> THEN kept
    ELSE LET comp == comps[1]
             rest == Tail(comps)
         IN  IF comp = <<>> \/ comp = curdir THEN new_comps(rest, kept, rooted)
             ELSE IF comp # pardir THEN new_comps(rest, Append(kept, comp), rooted)
             ELSE IF kept # <<>> /\ kept[Len(kept)] # pardir
                  THEN new_comps(rest, SubSeq(kept, 1, Len(kept) - 1), rooted)
             ELSE IF kept = <<>> /\ rooted THEN new_comps(rest, kept, rooted)
             ELSE new_comps(rest, Append(kept, comp), rooted)

\* module.normpath
normpath(m, s) ==
    IF m = "posixpath"
    THEN IF s = <<>> THEN curdir
         ELSE LET initial_slashes ==
                      IF s[1] # "/" THEN 0
                      ELSE IF Len(s) >= 2 /\ s[2] = "/"
                              /\ ~ (Len(s) >= 3 /\ s[3] = "/") THEN 2
                      ELSE 1
                  comps == new_comps(str_split(s, "/"), <<>>, initial_slashes > 0)
                  out   == [i \in 1 .. initial_slashes |-> "/"]
                               \o str_join(comps, "/")
              IN  IF out = <<>> THEN curdir ELSE out
    ELSE LET n      == [i \in DOMAIN s |-> IF s[i] = "/" THEN "\\" ELSE s[i]]
             dp     == splitdrive(m, n)
             rooted == dp[2] # <<>> /\ dp[2][1] = "\\"
             prefix == IF rooted THEN dp[1] \o <<"\\">> ELSE dp[1]
             comps  == new_comps(str_split(lstrip(dp[2], {"\\"}), "\\"), <<>>, rooted)
         IN  IF prefix = <<>> /\ comps = <<>> THEN curdir
             ELSE prefix \o str_join(comps, "\\")

\* module.abspath, where os.getcwd() answers c
abspath(m, c, s) ==
    IF isabs(m, s) THEN normpath(m, s)
    ELSE normpath(m, module_join(m, c, <<s>>))

\* Path.splitpath
splitpath(m, p) == module_split(m, p)

\* Path._parts_iter: the components, last first
RECURSIVE parts_iter(_, _)
parts_iter(m, loc) ==
    IF loc = curdir \/ loc = pardir THEN <<loc>>
    ELSE LET s == splitpath(m, loc)
         IN  IF s[1] = loc THEN <<loc>>
             ELSE <<s[2]>> \o parts_iter(m, s[1])

\* Path.splitall
splitall(m, p) ==
    LET it == parts_iter(m, p)
    IN  [i \in DOMAIN it |-> it[Len(it) + 1 - i]]

\* Path.joinpath(first, *others)
joinpath(m, parts) == module_join(m, parts[1], Tail(parts))

\* The for loop, comparing the segments of dest as they are written.
common_exact(m, orig_list, dest_list) ==
    LET n  == IF Len(orig_list) < Len(dest_list) THEN Len(orig_list)
              ELSE Len(dest_list)
        ok == {k \in 0 .. n : \A j \in 1 .. k : orig_list[j] = dest_list[j]}
    IN  CHOOSE k \in ok : \A j \in ok : j <= k

\* The for loop of relpathto: how many leading segments agree.
common(m, orig_list, dest_list) ==
    LET n  == IF Len(orig_list) < Len(dest_list) THEN Len(orig_list)
              ELSE Len(dest_list)
        ok == {k \in 0 .. n :
                  \A j \in 1 .. k : orig_list[j] = normcase(m, dest_list[j])}
    IN  CHOOSE k \in ok : \A j \in ok : j <= k

\* relpathto, answering a dest on another root in normalized case.
relpathto_normcased(m, c, origin_path, dst) ==
    LET origin    == abspath(m, c, origin_path)
        dest_path == abspath(m, c, dst)
        orig_list == splitall(m, normcase(m, origin))
        dest_list == splitall(m, dest_path)
    IN  IF orig_list[1] # normcase(m, dest_list[1]) THEN normcase(m, dest_path)
        ELSE LET i == common(m, orig_list, dest_list)
                 segments == [k \in 1 .. Len(orig_list) - i |-> pardir]
                                 \o SubSeq(dest_list, i + 1, Len(dest_list))
             IN  IF Len(segments) = 0 THEN curdir
                 ELSE module_join(m, segments[1], Tail(segments))

\* Path.relpathto
relpathto(m, c, origin_path, dst) ==
    LET origin    == abspath(m, c, origin_path)
        dest_path == abspath(m, c, dst)
        orig_list == splitall(m, normcase(m, origin))
        dest_list == splitall(m, dest_path)
    IN  IF orig_list[1] # normcase(m, dest_list[1]) THEN dest_path
        ELSE LET i == common(m, orig_list, dest_list)
                 segments == [k \in 1 .. Len(orig_list) - i |-> pardir]
                                 \o SubSeq(dest_list, i + 1, Len(dest_list))
             IN  IF Len(segments) = 0 THEN curdir
                 ELSE module_join(m, segments[1], Tail(segments))

\* ---------------------------------------------------------------------
\* The operations on path strings, called on bounded inputs.

\* The names a path of the model is made of.
Names == {<<"a">>, <<"A">>, <<"b">>}

\* The roots an absolute path of the model starts with.
Roots(m) ==
    IF m = "posixpath" THEN {<<"/">>, <<"/", "/">>}
    ELSE {<<"C", ":", "\\">>, <<"c", ":", "\\">>, <<"D", ":", "\\">>}

\* The paths given to relpathto: absolute or relative, up to MaxDepth names.
PathStrings(m) ==
    {r \o str_join(ns, sep(m)) :
        r \in Roots(m) \cup {<<>>},
        ns \in UNION {[1 .. n -> Names] : n \in 0 .. MaxDepth}}

\* The working directories the process may be in.
WorkingDirs(m) ==
    IF m = "posixpath" THEN {<<"/">>, <<"/", "b">>}
    ELSE {<<"C", ":", "\\">>, <<"C", ":", "\\", "b">>}

\* What an operation returned: its name, its arguments and the value.
Returned(op, args, v) == [op |-> op, args |-> args, v |-> v]

\* self.relpathto(dest)
Path_relpathto ==
    /\ result = None
    /\ result' = Returned("relpathto", <<self, dest>>,
                          relpathto(module, cwd, self, dest))
    /\ UNCHANGED <<exceptPath, module, cwd, self, dest>>

\* self.splitall()
Path_splitall ==
    /\ result = None
    /\ result' = Returned("splitall", <<self>>, splitall(module, self))
    /\ UNCHANGED <<exceptPath, module, cwd, self, dest>>

\* Path.joinpath(*parts), on the parts splitall returned
Path_joinpath ==
    /\ result # None
    /\ result.op = "splitall"
    /\ result' = Returned("joinpath", result.v, joinpath(module, result.v))
    /\ UNCHANGED <<exceptPath, module, cwd, self, dest>>

InitRelpath ==
    /\ WalkIdle
    /\ MaskIdle
    /\ PathElseIdle
    /\ module \in {"posixpath", "ntpath"}
    /\ cwd \in WorkingDirs(module)
    /\ self \in PathStrings(module)
    /\ dest \in PathStrings(module)
    /\ result = None

NextRelpath == Path_relpathto

SpecRelpath == InitRelpath /\ [][NextRelpath]_vars

InitSplitall ==
    /\ WalkIdle
    /\ MaskIdle
    /\ PathElseIdle
    /\ module = "posixpath"
    /\ cwd = <<"/">>
    /\ self \in StringsOver({"/", "a", "."}, 0, MaxPathLen)
    /\ dest = <<>>
    /\ result = None

NextSplitall ==
    \/ Path_splitall
    \/ Path_joinpath

SpecSplitall == InitSplitall /\ [][NextSplitall]_vars

\* ---------------------------------------------------------------------
\* Properties of relpathto and splitall.

\* The root or drive an absolute, normalized path starts with.
RootOf(m, p) ==
    LET dp == splitdrive(m, p)
    IN  dp[1] \o SubSeq(dp[2], 1, Len(dp[2]) - Len(lstrip(dp[2], seps(m))))

\* The components of an absolute, normalized path after its root.
NamesOf(m, p) ==
    LET rest == SubSeq(p, Len(RootOf(m, p)) + 1, Len(p))
    IN  IF rest = <<>> THEN <<>> ELSE str_split(rest, sep(m))

\* The case rule of a dialect: ntpath ignores case, posixpath does not.
CaseFold(m, s) == IF m = "ntpath" THEN lower(s) ELSE s

\* The operands of relpathto in absolute form.
AbsSelf == abspath(module, cwd, self)
AbsDest == abspath(module, cwd, dest)

\* relpathto has returned.
RelpathtoDone == result # None /\ result.op = "relpathto"

\* self and dest start with the same root or drive.
SameRoot == CaseFold(module, RootOf(module, AbsSelf))
                = CaseFold(module, RootOf(module, AbsDest))

\* The length of the longest component prefix self and dest share.
CommonLen ==
    LET a  == NamesOf(module, AbsSelf)
        b  == NamesOf(module, AbsDest)
        ok == {k \in 0 .. Len(a) :
                  /\ k <= Len(b)
                  /\ \A j \in 1 .. k :
                         CaseFold(module, a[j]) = CaseFold(module, b[j])}
    IN  CHOOSE k \in ok : \A j \in ok : j <= k

\* One pardir per component of self beyond the common prefix, then the
\* remaining components of dest in dest's own case.
Expected ==
    LET a    == NamesOf(module, AbsSelf)
        b    == NamesOf(module, AbsDest)
        segs == [k \in 1 .. Len(a) - CommonLen |-> pardir]
                    \o SubSeq(b, CommonLen + 1, Len(b))
    IN  IF segs = <<>> THEN curdir ELSE str_join(segs, sep(module))

\* self's absolute form joined with the result, normalized.
RoundTrip == normpath(module, module_join(module, AbsSelf, <<result.v>>))

\* self and dest name the same location.
SameLocation == CaseFold(module, AbsSelf) = CaseFold(module, AbsDest)

\* C11 as claimed: with a shared root, relpathto returns the pardirs and
\* the remaining components of dest, the result joined to self's absolute
\* form and normalized is exactly dest's absolute form, and the result for
\* one location is curdir.
C11_RelpathtoRoundTripExact ==
    (RelpathtoDone /\ SameRoot) =>
        /\ result.v = Expected
        /\ RoundTrip = AbsDest
        /\ SameLocation => result.v = curdir

\* C11, amended: with a shared root, relpathto returns the pardirs and the
\* remaining components of dest in dest's case; the result joined to self's
\* absolute form and normalized is dest's absolute form up to the case rule
\* of the dialect (the shared prefix keeps self's case), exactly so where
\* the dialect keeps case apart; and the result for one location, also one
\* written in another case, is curdir and never the empty string.
C11_RelpathtoRoundTripUpToCase ==
    (RelpathtoDone /\ SameRoot) =>
        /\ result.v = Expected
        /\ CaseFold(module, RoundTrip) = CaseFold(module, AbsDest)
        /\ module = "posixpath" => RoundTrip = AbsDest
        /\ SameLocation => (result.v = curdir /\ result.v # <<>>)

\* relpathto went up and down between two paths whose shared prefix is
\* written in different case.
C11_Witness ==
    /\ RelpathtoDone
    /\ SameRoot
    /\ module = "ntpath"
    /\ CommonLen >= 1
    /\ CommonLen < Len(NamesOf(module, AbsSelf))
    /\ CommonLen < Len(NamesOf(module, AbsDest))
    /\ SubSeq(NamesOf(module, AbsSelf), 1, CommonLen)
           # SubSeq(NamesOf(module, AbsDest), 1, CommonLen)
    /\ RoundTrip # AbsDest

\* C12: when the roots (or drives) of the two absolute forms differ under
\* the case rule of the dialect, relpathto returns dest's absolute form
\* itself, with no pardir in it and in dest's own case.
C12_OtherRootGivesAbsoluteDest ==
    (RelpathtoDone /\ ~ SameRoot) =>
        /\ result.v = AbsDest
        /\ \A i \in DOMAIN NamesOf(module, result.v) :
               NamesOf(module, result.v)[i] # pardir
        /\ isabs(module, result.v)

\* relpathto was asked for a path on another drive, written in upper case
\* and given relative to nothing.
C12_Witness ==
    /\ RelpathtoDone
    /\ ~ SameRoot
    /\ module = "ntpath"
    /\ RootOf(module, AbsDest) = <<"D", ":", "\\">>
    /\ \E i \in DOMAIN result.v : result.v[i] = "A"
    /\ Len(NamesOf(module, AbsSelf)) >= 1

\* joinpath has returned what it made of the parts of splitall.
JoinpathDone == result # None /\ result.op = "joinpath"

\* C13 as claimed: joining the parts splitall returns gives the path back
\* character for character, and the first part is the root, curdir,
\* pardir or the empty string.
C13_SplitallJoinsBack ==
    JoinpathDone =>
        /\ result.v = self
        /\ \/ result.args[1] \in {<<>>, curdir, pardir}
           \/ /\ result.args[1] # <<>>
              /\ \A i \in DOMAIN result.args[1] : result.args[1][i] = "/"

\* ---------------------------------------------------------------------
\* Classes.  A class is its method resolution order, the names of the
\* class and of its bases, nearest first; a name is a sequence of words.

\* The longest chain of operations the model applies to one value.
MaxChain == 3

Path == <<<<"Path">>, <<"str">>, <<"object">>>>

Multi == <<<<"Multi">>, <<"object">>>>

TempDir == <<<<"TempDir">>>> \o Path

\* class PathSubclass(Path): pass
PathSubclass == <<<<"PathSubclass">>>> \o Path

\* Path.using_module: type(cls.__name__ + '_' + module.__name__, (cls,), ...)
using_module(c, m) == <<c[1] \o <<m>>>> \o c

\* Multi.for_class: type('Multi' + path_cls.__name__, (cls, path_cls), {})
for_class(path_cls) == <<<<"Multi">> \o path_cls[1], <<"Multi">>>> \o path_cls

\* The class at position i of the method resolution order of c.
ClassAt(c, i) == IF c[i] = Multi[1] THEN Multi ELSE SubSeq(c, i, Len(c))

issubclass(c, d) == \E i \in DOMAIN c : c[i] = d[1]

\* _next_class as type(self): every class answers itself.
next_class_is_own(c) == c

\* cls._next_class: the nearest definition along the method resolution
\* order is that of Multi, of TempDir or of Path.
next_class(c) ==
    LET defs == {i \in DOMAIN c : c[i] \in {Multi[1], TempDir[1], Path[1]}}
        d    == CHOOSE i \in defs : \A j \in defs : i <= j
        non  == {i \in DOMAIN c : ~ issubclass(ClassAt(c, i), Multi)}
    IN  IF c[d] = Multi[1]
        THEN ClassAt(c, CHOOSE i \in non : \A j \in non : i <= j)
        ELSE IF c[d] = TempDir[1] THEN Path
        ELSE c

\* cls.module: the nearest class that sets it; Path sets the host's os.path
module_of(c, host) ==
    LET set == {i \in DOMAIN c :
                   c[i][Len(c[i])] \in {"posixpath", "ntpath"}}
    IN  IF set = {} THEN host
        ELSE LET i == CHOOSE k \in set : \A j \in set : k <= j
             IN  c[i][Len(c[i])]

\* The path modules a class may be fixed to.
Modules == {"posixpath", "ntpath"}

\* The classes without the Multi mix-in.
PlainClasses ==
    LET base == {Path, PathSubclass, TempDir}
    IN  base \cup {using_module(c, m) : c \in base, m \in Modules}

\* The classes Multi.for_class builds; a TempDir takes no argument, so no
\* value of a Multi class over it can be made from a string.
MultiClasses ==
    {for_class(c) : c \in {k \in PlainClasses : ~ issubclass(k, TempDir)}}

PathClasses == PlainClasses \cup MultiClasses

\* The operations that end in `return self._next_class(...)`.
DirectOps ==
    {"__add__", "__radd__", "__truediv__", "__rtruediv__", "joinpath",
     "absolute", "normcase", "normpath", "realpath", "expanduser",
     "expandvars", "dirname", "parent", "basename", "name", "drive",
     "with_name", "splitpath[0]", "splitdrive[0]", "splitdrive[1]",
     "splitext[0]", "iterdir"}

\* The operations that return what other operations return.
ChainedOps ==
    {"expand", "with_stem", "with_suffix", "stripext", "relpath",
     "relpathto", "walk"}

\* The classes the value of op may have, called on a value of class c.
RECURSIVE ReturnClasses(_, _)
ReturnClasses(op, c) ==
    CASE op \in DirectOps -> {next_class(c)}
      [] op = "stripext" -> ReturnClasses("splitext[0]", c)
      [] op = "with_stem" -> ReturnClasses("with_name", c)
      [] op = "with_suffix" ->
            UNION {ReturnClasses("__add__", k) : k \in ReturnClasses("stripext", c)}
      [] op = "expand" ->
            UNION {UNION {ReturnClasses("normpath", k2) :
                            k2 \in ReturnClasses("expanduser", k1)} :
                      k1 \in ReturnClasses("expandvars", c)}
      [] op = "relpathto" ->
            {next_class(c)} \cup ReturnClasses("absolute", next_class(c))
      [] op = "relpath" -> ReturnClasses("relpathto", next_class(c))
      [] op = "walk" ->
            ReturnClasses("iterdir", c)
                \cup UNION {ReturnClasses("iterdir", k) :
                              k \in ReturnClasses("iterdir", c)}

\* A path-returning operation called on the current value; the value it
\* returns becomes the current value.
Path_operation ==
    /\ nops < MaxChain
    /\ \E op \in DirectOps \cup ChainedOps :
           \E k \in ReturnClasses(op, obj) :
               /\ last' = [op |-> op, on |-> obj, ret |-> k]
               /\ obj' = k
    /\ nops' = nops + 1
    /\ UNCHANGED <<exceptClass, start>>

InitClass ==
    /\ WalkIdle
    /\ MaskIdle
    /\ ClassElseIdle
    /\ obj \in PathClasses
    /\ start = obj
    /\ last = None
    /\ nops = 0

NextClass == Path_operation

SpecClass == InitClass /\ [][NextClass]_vars

\* The class the claim names for a value of class c.
ExpectedNext(c) ==
    IF issubclass(c, Multi)
    THEN CHOOSE k \in PlainClasses : c = for_class(k)
    ELSE IF issubclass(c, TempDir) THEN Path
    ELSE c

\* C14: every path-returning operation on a value of class C returns a
\* value of C itself for Path, its subclasses and its dialect-fixed
\* subclasses, of Path for a TempDir and of the class a Multi class was
\* built over; and the value a chain of operations ends with is of the
\* class named so for the class the chain began with.
C14_OperationsReturnNextClass ==
    last # None =>
        /\ last.ret = ExpectedNext(last.on)
        /\ obj = last.ret
        /\ obj = ExpectedNext(start)

\* A chain of operations on a value of a Multi class over a subclass fixed
\* to a dialect stayed in that subclass.
C14_Witness ==
    /\ last # None
    /\ start = for_class(using_module(PathSubclass, "ntpath"))
    /\ nops = MaxChain
    /\ last.op = "with_suffix"
    /\ obj = using_module(PathSubclass, "ntpath")

\* ---------------------------------------------------------------------
\* The Multi mix-in.

\* The longest string the model hands to a Multi class.
MaxInputLen == 3

\* os.pathsep, where os.path is the module host
pathsep(host) == IF host = "posixpath" THEN ":" ELSE ";"

\* A value: its class and its characters.
Value(c, s) == [cls |-> c, s |-> s]

\* Multi.detect, always handing the string to the Multi class.
detect_keeps_multi(c, host, s) == Value(c, s)

\* Multi.detect
detect(c, host, s) ==
    IF pathsep(host) \notin Range(s) THEN Value(next_class(c), s)
    ELSE Value(c, s)

\* Multi.__iter__, making the elements with the class of the value.
iter_of_own_class(v, host) ==
    LET parts == str_split(v.s, pathsep(host))
    IN  [i \in DOMAIN parts |-> Value(v.cls, parts[i])]

\* Multi.__iter__: the elements, in order
iter(v, host) ==
    LET parts == str_split(v.s, pathsep(host))
    IN  [i \in DOMAIN parts |-> Value(next_class(v.cls), parts[i])]

\* MultiPath.detect(input)
Multi_detect ==
    /\ value = None
    /\ value' = detect(mcls, os_path, input)
    /\ made' = "detect"
    /\ UNCHANGED <<exceptMulti, os_path, mcls, input, items>>

\* MultiPath(input)
Multi_construct ==
    /\ value = None
    /\ value' = Value(mcls, input)
    /\ made' = "construct"
    /\ UNCHANGED <<exceptMulti, os_path, mcls, input, items>>

\* list(value), for a value that has the mix-in
Multi_iter ==
    /\ value # None
    /\ issubclass(value.cls, Multi)
    /\ items = None
    /\ items' = [elems |-> iter(value, os_path)]
    /\ UNCHANGED <<exceptMulti, os_path, mcls, input, value, made>>

InitMulti ==
    /\ WalkIdle
    /\ MaskIdle
    /\ MultiElseIdle
    /\ os_path \in Modules
    /\ mcls \in MultiClasses
    /\ input \in StringsOver({"a", ":", ";"}, 0, MaxInputLen)
    /\ value = None
    /\ made = None
    /\ items = None

NextMulti ==
    \/ Multi_detect
    \/ Multi_construct
    \/ Multi_iter

SpecMulti == InitMulti /\ [][NextMulti]_vars

\* The path-list separator of the dialect a class is fixed to, or of the
\* host for a class that is fixed to none.
DialectPathsep == pathsep(module_of(mcls, os_path))

\* C15 as claimed: detect returns a value with the mix-in exactly when the
\* path-list separator of the dialect of the class occurs in the string,
\* and else a value of the plain class the Multi class was built over; in
\* both cases the value is the string.
C15_DetectByDialectSeparator ==
    (value # None /\ made = "detect") =>
        /\ issubclass(value.cls, Multi) <=> DialectPathsep \in Range(input)
        /\ issubclass(value.cls, Multi) => value.cls = mcls
        /\ ~ issubclass(value.cls, Multi) => value.cls = ExpectedNext(mcls)
        /\ value.s = input

MaxEntries == 2

\* The longest pattern the model matches with.
MaxPatternLen == 2

\* The directory that is listed.
TheDir == <<"d">>

\* The names an entry of the directory may have.
EntryNames == {<<"s", "b">>, <<"S", "b">>, <<"F">>}

\* What os.listdir may answer: distinct names, in any order, each a
\* directory or a file.
Listings ==
    {e \in UNION {[1 .. n -> [name : EntryNames, kind : {"dir", "file"}]] :
                     n \in 0 .. MaxEntries} :
        \A i, j \in DOMAIN e : i # j => e[i].name # e[j].name}

\* The patterns of the model; "[" is not among their characters.
Patterns == StringsOver({"S", "s", "*", "?"}, 0, MaxPatternLen)

\* matchers.CaseInsensitive(pattern)
CaseInsensitive(pattern) == [t |-> "CaseInsensitive", v |-> pattern]

\* The predicates a caller passes: what each answers for a name.
Predicates ==
    [never |-> {}, upper_first |-> {<<"S", "b">>, <<"F">>}]

\* The values of match= given to iterdir, dirs and files.
MatchArgs ==
    {None} \cup {Str(p) : p \in Patterns}
           \cup {CaseInsensitive(p) : p \in Patterns}
           \cup {Func(f) : f \in DOMAIN Predicates}

\* fnmatch.fnmatchcase, for patterns of literals, "?" and "*"
RECURSIVE fnmatchcase(_, _)
fnmatchcase(name, pat) ==
    IF pat = <<>> THEN name = <<>>
    ELSE IF pat[1] = "*"
         THEN \/ fnmatchcase(name, Tail(pat))
              \/ name # <<>> /\ fnmatchcase(Tail(name), pat)
    ELSE /\ name # <<>>
         /\ pat[1] = "?" \/ pat[1] = name[1]
         /\ fnmatchcase(Tail(name), Tail(pat))

\* Path.name
basename(m, p) == module_split(m, p)[2]

\* getattr(self, 'normcase', path.module.normcase), as the module it is of
normcase_of(matcher, m) == IF matcher.t = "CaseInsensitive" THEN "ntpath" ELSE m

\* Pattern.get_pattern
get_pattern(matcher, nc) ==
    IF "_pattern" \in DOMAIN matcher THEN matcher._pattern
    ELSE normcase(nc, matcher.v)

\* Pattern.__call__, matching with the pattern as it was written.
Pattern_call_raw(matcher, m, p) ==
    [ret   |-> fnmatchcase(normcase(normcase_of(matcher, m), basename(m, p)),
                           matcher.v),
     match |-> matcher]

\* Pattern.__call__: the answer, and the matcher with its pattern kept
Pattern_call(matcher, m, p) ==
    LET nc      == normcase_of(matcher, m)
        pattern == get_pattern(matcher, nc)
    IN  [ret   |-> fnmatchcase(normcase(nc, basename(m, p)), pattern),
         match |-> ("_pattern" :> pattern) @@ matcher]

\* match(path), for what matchers.load returns
Call(matcher, m, p) ==
    IF matcher.t = "Null" THEN [ret |-> TRUE, match |-> matcher]
    ELSE IF matcher.t = "function"
    THEN [ret |-> basename(m, p) \in Predicates[matcher.v], match |-> matcher]
    ELSE Pattern_call(matcher, m, p)

\* filter(match, paths)
RECURSIVE filter(_, _, _)
filter(matcher, m, paths) ==
    IF paths = <<>> THEN <<>>
    ELSE LET r == Call(matcher, m, paths[1])
         IN  (IF r.ret THEN <<paths[1]>> ELSE <<>>)
                 \o filter(r.match, m, Tail(paths))

\* Path.iterdir
iterdir(m, d, listing_, param) ==
    filter(load(param), m,
           [i \in DOMAIN listing_ |-> module_join(m, d, <<listing_[i].name>>)])

\* The kind of the entry a child path names.
KindOf(m, listing_, p) ==
    LET i == CHOOSE k \in DOMAIN listing_ : listing_[k].name = basename(m, p)
    IN  listing_[i].kind

\* Path.dirs
dirs(m, d, listing_, param) ==
    SelectSeq(iterdir(m, d, listing_, param),
              LAMBDA p : KindOf(m, listing_, p) = "dir")

\* Path.files
files(m, d, listing_, param) ==
    SelectSeq(iterdir(m, d, listing_, param),
              LAMBDA p : KindOf(m, listing_, p) = "file")

\* list(self.iterdir(match))
Path_iterdir ==
    /\ listed = None
    /\ listed' = Returned("iterdir", <<matchArg>>,
                          iterdir(dir_module, TheDir, entries, matchArg))
    /\ UNCHANGED <<exceptListdir, dir_module, entries, matchArg>>

\* self.dirs(match)
Path_dirs ==
    /\ listed = None
    /\ listed' = Returned("dirs", <<matchArg>>,
                          dirs(dir_module, TheDir, entries, matchArg))
    /\ UNCHANGED <<exceptListdir, dir_module, entries, matchArg>>

\* self.files(match)
Path_files ==
    /\ listed = None
    /\ listed' = Returned("files", <<matchArg>>,
                          files(dir_module, TheDir, entries, matchArg))
    /\ UNCHANGED <<exceptListdir, dir_module, entries, matchArg>>

InitListdir ==
    /\ WalkIdle
    /\ MaskIdle
    /\ ListdirElseIdle
    /\ dir_module \in Modules
    /\ entries \in Listings
    /\ matchArg \in MatchArgs
    /\ listed = None

NextListdir ==
    \/ Path_iterdir
    \/ Path_dirs
    \/ Path_files

SpecListdir == InitListdir /\ [][NextListdir]_vars

\* The name of an entry passes the matcher given, by the rule the claim
\* states for that kind of matcher.
Passes(name) ==
    IF matchArg = None THEN TRUE
    ELSE IF matchArg.t = "str"
    THEN fnmatchcase(CaseFold(dir_module, name), CaseFold(dir_module, matchArg.v))
    ELSE IF matchArg.t = "CaseInsensitive"
    THEN fnmatchcase(lower(name), lower(matchArg.v))
    ELSE name \in Predicates[matchArg.v]

\* The entries an operation is to return, in the order of the listing.
Wanted(op) ==
    LET keep == SelectSeq(entries,
                    LAMBDA e : /\ Passes(e.name)
                               /\ op = "dirs" => e.kind = "dir"
                               /\ op = "files" => e.kind = "file")
    IN  [i \in DOMAIN keep |->
            TheDir \o <<sep(dir_module)>> \o keep[i].name]

\* C17: iterdir, dirs and files return exactly the children (of their
\* kind) whose name passes the matcher: a string pattern matches the name
\* with both normalized by the case rule of the dialect of the class, a
\* CaseInsensitive pattern matches whatever the case, None passes every
\* child and a callable decides by its own answer.
C17_ListingMatchesByDialectCase ==
    listed # None => listed.v = Wanted(listed.op)

\* The pattern S* found the entry sb under ntpath, next to an entry it
\* does not match.
C17_Witness ==
    /\ listed # None
    /\ listed.op = "iterdir"
    /\ dir_module = "ntpath"
    /\ matchArg = Str(<<"S", "*">>)
    /\ Len(entries) = 2
    /\ listed.v = <<<<"d", "\\", "s", "b">>>>

\* ---------------------------------------------------------------------
\* in_place: rewriting a file through a backup.

\* The most characters the body of the with-block writes.
MaxWrites == 2

\* The longest content the file has at first.
MaxContent == 2

\* A file that is not there, and a file with its content.
Absent == [exists |-> FALSE, data |-> <<>>]
File(data) == [exists |-> TRUE, data |-> data]

\* An open file object with what was written to it, and a closed one.
Open(data) == [closed |-> FALSE, data |-> data]
Closed(f) == [closed |-> TRUE, data |-> f.data]

\* isinstance(e, Exception): KeyboardInterrupt, SystemExit and
\* GeneratorExit derive from BaseException only.
IsException(e) == e.type \notin {"KeyboardInterrupt", "SystemExit", "GeneratorExit"}

\* The exceptions the body may raise.
BodyExceptions ==
    {[type |-> t, msg |-> "some error"] :
        t \in {"RuntimeError", "OSError", "KeyboardInterrupt", "SystemExit"}}

\* The leading parts of a sequence.
Prefixes(s) == {SubSeq(s, 1, n) : n \in 0 .. Len(s)}

\* in_place up to its yield: the mode is checked, the file is moved to the
\* backup name (a backup left from before is removed first), the backup
\* is opened for reading and a new, empty file for writing.
in_place_enter ==
    /\ ip_pc = "call"
    /\ IF open_mode \cap {"w", "a", "+"} # {}
       THEN /\ ip_exc' = ValueError("Only read-only file modes can be used")
            /\ ip_pc' = "done"
            /\ UNCHANGED <<disk, readable, writable>>
       ELSE /\ disk' = [file |-> File(<<>>), backup_fn |-> disk.file]
            /\ readable' = Open(<<>>)
            /\ writable' = Open(<<>>)
            /\ ip_pc' = "body"
            /\ UNCHANGED ip_exc
    /\ UNCHANGED <<exceptInplace, open_mode, original>>

\* The body writes a character; the buffer may be flushed up to any point.
body_write ==
    /\ ip_pc = "body"
    /\ Len(writable.data) < MaxWrites
    /\ \E c \in {"n", "o"} :
           /\ writable' = Open(Append(writable.data, c))
           /\ \E flushed \in Prefixes(Append(writable.data, c)) :
                  /\ Len(flushed) >= Len(disk.file.data)
                  /\ disk' = [disk EXCEPT !.file = File(flushed)]
    /\ UNCHANGED <<exceptInplace, open_mode, original, readable, ip_pc, ip_exc>>

\* The body raises e: the with statement throws it into the generator at
\* the yield.  `except Exception` closes the files, removes the new file
\* and moves the backup back; `finally` removes the backup if it is there.
body_raise ==
    /\ ip_pc = "body"
    /\ \E e \in BodyExceptions :
           /\ ip_exc' = e
           /\ IF IsException(e)
              THEN /\ readable' = Closed(readable)
                   /\ writable' = Closed(writable)
                   /\ disk' = [file |-> disk.backup_fn, backup_fn |-> Absent]
              ELSE /\ disk' = [disk EXCEPT !.backup_fn = Absent]
                   /\ UNCHANGED <<readable, writable>>
    /\ ip_pc' = "done"
    /\ UNCHANGED <<exceptInplace, open_mode, original>>

\* The body ends: `else` closes the files, which writes what is left in
\* the buffer; `finally` removes the backup.
body_return ==
    /\ ip_pc = "body"
    /\ readable' = Closed(readable)
    /\ writable' = Closed(writable)
    /\ disk' = [file |-> File(writable.data), backup_fn |-> Absent]
    /\ ip_pc' = "done"
    /\ UNCHANGED <<exceptInplace, open_mode, original, ip_exc>>

InitInplace ==
    /\ WalkIdle
    /\ MaskIdle
    /\ InplaceElseIdle
    /\ original \in StringsOver({"o", "p"}, 0, MaxContent)
    /\ \E old \in {Absent, File(<<"b">>)} :
           disk = [file |-> File(original), backup_fn |-> old]
    /\ open_mode \in {{"r"}, {"r", "b"}, {"w"}, {"r", "+"}}
    /\ readable = None
    /\ writable = None
    /\ ip_pc = "call"
    /\ ip_exc = NoExc

NextInplace ==
    \/ in_place_enter
    \/ body_write
    \/ body_raise
    \/ body_return

SpecInplace == InitInplace /\ [][NextInplace]_vars

\* The with-block was entered and has been left.
InplaceLeft == ip_pc = "done" /\ writable # None

\* C18 as claimed: when the body raises, whatever the exception, both file
\* objects are closed, the file holds its original content again and no
\* backup is left; when the body ends normally the file holds what was
\* written and no backup is left.
C18_InPlaceRestoresOnAnyException ==
    InplaceLeft =>
        /\ ~ disk.backup_fn.exists
        /\ ip_exc # NoExc =>
               /\ readable.closed
               /\ writable.closed
               /\ disk.file = File(original)
        /\ ip_exc = NoExc => disk.file = File(writable.data)

\* ---------------------------------------------------------------------
\* A Path as a context manager: the with-block runs in that directory.

\* The deepest nesting of with-blocks.
MaxBlocks == 2

\* The most calls of os.chdir the bodies make.
MaxChdirs == 1

\* The directories of the process; every Path of the model names one.
Dirs == {"/", "/a", "/b"}

\* The Path objects used as context managers, and the directory of each.
Instances == [p |-> "/a", q |-> "/b"]

\* __enter__ keeping the path itself as the directory to go back to.
saved_dir_is_self(p, current) == Instances[p]

\* self._old_dir = self.cwd()
saved_dir(p, current) == current

\* The exception an outer block sees is the one the inner block let pass.
Unwinds == unwinding # NoExc

\* with p: __enter__ notes the working directory on p and changes to p.
Path_enter ==
    /\ ~ Unwinds
    /\ Len(blocks) < MaxBlocks
    /\ \E p \in DOMAIN Instances :
           /\ old_dir' = [old_dir EXCEPT ![p] = saved_dir(p, workdir)]
           /\ workdir' = Instances[p]
           /\ blocks' = Append([i \in DOMAIN blocks |->
                                   IF blocks[i].inst = p
                                   THEN [blocks[i] EXCEPT !.again = TRUE]
                                   ELSE blocks[i]],
                               [inst |-> p, entry |-> workdir, again |-> FALSE])
           /\ event' = [ev |-> "enter", block |-> [inst |-> p, entry |-> workdir, again |-> FALSE]]
    /\ UNCHANGED <<exceptChdir, unwinding, chdirs>>

\* The body calls os.chdir itself.
body_chdir ==
    /\ ~ Unwinds
    /\ blocks # <<>>
    /\ chdirs < MaxChdirs
    /\ \E d \in Dirs \ {workdir} :
           /\ workdir' = d
           /\ event' = [ev |-> "chdir", block |-> blocks[Len(blocks)]]
    /\ chdirs' = chdirs + 1
    /\ UNCHANGED <<exceptChdir, old_dir, blocks, unwinding>>

\* The innermost block is left, at its end or by an exception, which
\* __exit__ lets pass: os.chdir(self._old_dir).
Path_exit ==
    /\ blocks # <<>>
    /\ LET b == blocks[Len(blocks)] IN
       /\ workdir' = old_dir[b.inst]
       /\ event' = [ev |-> "exit", block |-> b]
    /\ blocks' = SubSeq(blocks, 1, Len(blocks) - 1)
    /\ IF Unwinds THEN UNCHANGED unwinding
       ELSE unwinding' \in {NoExc, [type |-> "RuntimeError"], [type |-> "KeyboardInterrupt"]}
    /\ UNCHANGED <<exceptChdir, old_dir, chdirs>>

InitChdir ==
    /\ WalkIdle
    /\ MaskIdle
    /\ ChdirElseIdle
    /\ workdir \in Dirs
    /\ old_dir = [p \in DOMAIN Instances |-> "unset"]
    /\ blocks = <<>>
    /\ event = None
    /\ unwinding = NoExc
    /\ chdirs = 0

NextChdir ==
    \/ Path_enter
    \/ body_chdir
    \/ Path_exit

SpecChdir == InitChdir /\ [][NextChdir]_vars

MaxBodySteps == 2

\* The names tempfile.mkdtemp may give a new directory.
TempNames == {"tmpa", "tmpb", "tmpc"}

\* What the body may create inside the directory.
EntryPaths == {<<"f">>, <<"sub">>, <<"sub", "f">>}

\* tempfile.mkdtemp: the directories with a new, empty one named n
mkdtemp(tree, n) == [d \in DOMAIN tree \cup {n} |-> IF d = n THEN {} ELSE tree[d]]

\* os.rmdir, which removes an empty directory only.
rmdir(tree, n) == IF tree[n] = {} THEN [d \in DOMAIN tree \ {n} |-> tree[d]] ELSE tree

\* shutil.rmtree: the directories without n and all it holds
rmtree(tree, n) == [d \in DOMAIN tree \ {n} |-> tree[d]]

\* cls(s): the value, and the directories after TempDir.__new__ has made
\* one more where cls is a TempDir
construct(c, s, tree) ==
    IF issubclass(c, TempDir)
    THEN {[value |-> Value(c, <<n>>), tree |-> mkdtemp(tree, n)] :
             n \in TempNames \ DOMAIN tree}
    ELSE {[value |-> Value(c, s), tree |-> tree]}

\* TempDir()
TempDir_new ==
    /\ td_pc = "new"
    /\ \E r \in construct(TempDir, <<>>, tmp) :
           /\ td' = r.value
           /\ tmp' = r.tree
    /\ td_pc' = "made"
    /\ UNCHANGED <<exceptTempdir, tmp_before, entered, td_exc, td_log>>

\* with d as entered: __enter__ returns self._next_class(self)
TempDir_enter ==
    /\ td_pc = "made"
    /\ \E r \in construct(next_class(td.cls), td.s, tmp) :
           /\ entered' = r.value
           /\ tmp' = r.tree
    /\ td_pc' = "body"
    /\ td_log' = Append(td_log, "__enter__")
    /\ UNCHANGED <<exceptTempdir, tmp_before, td, td_exc>>

\* The body creates a file or a directory inside the temporary directory.
body_create ==
    /\ td_pc = "body"
    /\ Len(td_log) <= MaxBodySteps
    /\ td.s[1] \in DOMAIN tmp
    /\ \E e \in EntryPaths \ tmp[td.s[1]] :
           /\ Len(e) > 1 => SubSeq(e, 1, Len(e) - 1) \in tmp[td.s[1]]
           /\ tmp' = [tmp EXCEPT ![td.s[1]] = @ \cup {e}]
    /\ td_log' = Append(td_log, "create")
    /\ UNCHANGED <<exceptTempdir, tmp_before, td, entered, td_pc, td_exc>>

\* The body calls a path-returning operation on the TempDir or on what
\* __enter__ returned.
body_operation ==
    /\ td_pc = "body"
    /\ Len(td_log) <= MaxBodySteps
    /\ \E v \in {td, entered}, op \in DirectOps \cup ChainedOps :
           \E k \in ReturnClasses(op, v.cls) :
               \E r \in construct(k, v.s, tmp) :
                   /\ tmp' = r.tree
                   /\ td_log' = Append(td_log, op)
    /\ UNCHANGED <<exceptTempdir, tmp_before, td, entered, td_pc, td_exc>>

\* The block is left, at its end or by an exception: __exit__ calls
\* self.rmtree(), whatever it is given.
TempDir_exit ==
    /\ td_pc = "body"
    /\ tmp' = rmtree(tmp, td.s[1])
    /\ td_exc' \in {NoExc, [type |-> "RuntimeError"], [type |-> "KeyboardInterrupt"]}
    /\ td_pc' = "left"
    /\ UNCHANGED <<exceptTempdir, tmp_before, td, entered, td_log>>

InitTempdir ==
    /\ WalkIdle
    /\ MaskIdle
    /\ TempdirElseIdle
    /\ \E n \in TempNames : tmp \in {<<>>, [d \in {n} |-> {}], [d \in {n} |-> {<<"f">>}]}
    /\ tmp_before = tmp
    /\ td = None
    /\ entered = None
    /\ td_pc = "new"
    /\ td_exc = NoExc
    /\ td_log = <<>>

NextTempdir ==
    \/ TempDir_new
    \/ TempDir_enter
    \/ body_create
    \/ body_operation
    \/ TempDir_exit

SpecTempdir == InitTempdir /\ [][NextTempdir]_vars

\* C20: while the TempDir is in use there is exactly one directory more
\* than before, the one it names, whatever path operations were called;
\* __enter__ returns a Path that is no TempDir and equals it; and once the
\* block is left, at its end or by any exception, the directory and what
\* was in it are gone and the directories are those from before.
C20_TempDirMakesOneAndRemovesIt ==
    /\ td_pc \in {"made", "body"} =>
           /\ td.s[1] \notin DOMAIN tmp_before
           /\ DOMAIN tmp = DOMAIN tmp_before \cup {td.s[1]}
           /\ \A d \in DOMAIN tmp_before : tmp[d] = tmp_before[d]
    /\ entered # None =>
           /\ entered.cls = Path
           /\ ~ issubclass(entered.cls, TempDir)
           /\ entered.s = td.s
    /\ td_pc = "left" =>
           /\ td.s[1] \notin DOMAIN tmp
           /\ tmp = tmp_before

\* A block in which a file was created and a path operation was called on
\* the TempDir was left by KeyboardInterrupt.
C20_Witness ==
    /\ td_pc = "left"
    /\ td_exc = [type |-> "KeyboardInterrupt"]
    /\ \E i \in DOMAIN td_log : td_log[i] = "create"
    /\ \E i \in DOMAIN td_log : td_log[i] = "__truediv__"
    /\ tmp_before # <<>>

\* ---------------------------------------------------------------------
\* Directories: mkdir_p, makedirs_p, rmdir_p, removedirs_p.

\* The deepest path below the working directory, in names.
MaxDirDepth == 2

\* The most entries the volume holds at the start.
MaxDirEntries == 3

\* The names of the entries.
DirNames == {"a", "b"}

\* The relative paths of the volume, each the sequence of its names.
DirPaths == UNION {[1 .. n -> DirNames] : n \in 1 .. MaxDirDepth}

\* os.path.dirname
dirname(p) == SubSeq(p, 1, Len(p) - 1)

\* The volumes: every entry is in a directory.
Volumes ==
    UNION {{[p \in DirPaths |-> IF p \in S THEN k[p] ELSE "absent"] :
               k \in {k \in [S -> {"dir", "file"}] :
                         \A p \in S : Len(p) > 1 => k[dirname(p)] = "dir"}} :
              S \in {S \in SUBSET DirPaths :
                        /\ Cardinality(S) <= MaxDirEntries
                        /\ \A p \in S : Len(p) > 1 => dirname(p) \in S}}

\* The entries directly inside the directory p.
Children(v, p) == {c \in DirPaths : Len(c) = Len(p) + 1 /\ dirname(c) = p /\ v[c] # "absent"}

\* os.path.exists and os.path.isdir; the empty path is the working directory
exists(v, p) == p = <<>> \/ v[p] # "absent"
isdir(v, p) == p = <<>> \/ v[p] = "dir"

\* The subclass of OSError Python raises for an errno.
OSError(errno) ==
    [type |-> CASE errno = "ENOENT" -> "FileNotFoundError"
                [] errno = "EEXIST" -> "FileExistsError"
                [] errno = "ENOTDIR" -> "NotADirectoryError"
                [] errno = "EACCES" -> "PermissionError"
                [] OTHER -> "OSError",
     errno |-> errno]

\* What the system answers when it resolves the directory that holds p.
Lookup(v, p) ==
    IF \E i \in 1 .. Len(p) - 1 : v[SubSeq(p, 1, i)] = "file" THEN "ENOTDIR"
    ELSE IF \E i \in 1 .. Len(p) - 1 : v[SubSeq(p, 1, i)] = "absent" THEN "ENOENT"
    ELSE "ok"

\* The outcome of a call: the volume after it and the exception it raised.
Outcome(v, errno, after) ==
    IF errno = "ok" THEN [vol |-> after, exc |-> NoExc]
    ELSE [vol |-> v, exc |-> OSError(errno)]

\* os.rmdir(p); prot are the directories the process may not write, and
\* notempty is the errno the platform gives for a directory that holds
\* something
os_rmdir(v, prot, notempty, p) ==
    Outcome(v,
            IF Lookup(v, p) # "ok" THEN Lookup(v, p)
            ELSE IF v[p] = "absent" THEN "ENOENT"
            ELSE IF v[p] = "file" THEN "ENOTDIR"
            ELSE IF dirname(p) \in prot THEN "EACCES"
            ELSE IF Children(v, p) # {} THEN notempty
            ELSE "ok",
            [v EXCEPT ![p] = "absent"])

\* os.mkdir(p)
os_mkdir(v, prot, p) ==
    Outcome(v,
            IF Lookup(v, p) # "ok" THEN Lookup(v, p)
            ELSE IF v[p] # "absent" THEN "EEXIST"
            ELSE IF dirname(p) \in prot THEN "EACCES"
            ELSE "ok",
            [v EXCEPT ![p] = "dir"])

\* os.removedirs, after the leaf is gone: the parents are removed upwards
\* until one cannot be; that error is dropped
RECURSIVE prune(_, _, _, _)
prune(v, prot, notempty, head) ==
    IF head = <<>> THEN v
    ELSE LET r == os_rmdir(v, prot, notempty, head)
         IN  IF r.exc # NoExc THEN v ELSE prune(r.vol, prot, notempty, dirname(head))

\* os.removedirs(p)
os_removedirs(v, prot, notempty, p) ==
    LET r == os_rmdir(v, prot, notempty, p)
    IN  IF r.exc # NoExc THEN r
        ELSE [vol |-> prune(r.vol, prot, notempty, dirname(p)), exc |-> NoExc]

\* os.makedirs(p), exist_ok=False: the missing parents are made first, a
\* FileExistsError from that is dropped, and then the leaf is made
RECURSIVE os_makedirs(_, _, _)
os_makedirs(v, prot, p) ==
    IF dirname(p) # <<>> /\ ~ (Lookup(v, dirname(p)) = "ok" /\ exists(v, dirname(p)))
    THEN LET r == os_makedirs(v, prot, dirname(p))
         IN  IF r.exc # NoExc /\ r.exc.type # "FileExistsError" THEN r
             ELSE os_mkdir(r.vol, prot, p)
    ELSE os_mkdir(v, prot, p)

\* DirectoryNotEmpty.translate(): an OSError with errno ENOTEMPTY becomes
\* a DirectoryNotEmpty
translate(r) ==
    IF r.exc # NoExc /\ r.exc.errno = "ENOTEMPTY"
    THEN [r EXCEPT !.exc.type = "DirectoryNotEmpty"]
    ELSE r

\* contextlib.suppress(*types)
suppress(types, r) ==
    IF r.exc # NoExc /\ r.exc.type \in types THEN [r EXCEPT !.exc = NoExc] ELSE r

\* What a method that ends in "return self" gives back.
ReturnSelf(p, r) ==
    [vol |-> r.vol, exc |-> r.exc, ret |-> IF r.exc = NoExc THEN [s |-> p] ELSE None]

\* Path.mkdir_p
mkdir_p(v, prot, p) ==
    ReturnSelf(p, suppress({"FileExistsError"}, os_mkdir(v, prot, p)))

\* Path.makedirs_p
makedirs_p(v, prot, p) ==
    ReturnSelf(p, suppress({"FileExistsError"}, os_makedirs(v, prot, p)))

\* Path.rmdir_p
rmdir_p(v, prot, notempty, p) ==
    ReturnSelf(p, suppress({"FileNotFoundError", "FileExistsError", "DirectoryNotEmpty"},
                           translate(os_rmdir(v, prot, notempty, p))))

\* Path.removedirs_p
removedirs_p(v, prot, notempty, p) ==
    ReturnSelf(p, suppress({"FileExistsError", "DirectoryNotEmpty"},
                           translate(os_removedirs(v, prot, notempty, p))))

\* One call of a method on the Path dcall.path.
DirCall(op, r) ==
    /\ dcall.op = op
    /\ doutcome = None
    /\ volume' = r.vol
    /\ doutcome' = [ret |-> r.ret, exc |-> r.exc]
    /\ UNCHANGED <<exceptDirs, volume_before, protected, notempty_errno, dcall>>

Path_mkdir_p == DirCall("mkdir_p", mkdir_p(volume, protected, dcall.path))
Path_makedirs_p == DirCall("makedirs_p", makedirs_p(volume, protected, dcall.path))
Path_rmdir_p == DirCall("rmdir_p", rmdir_p(volume, protected, notempty_errno, dcall.path))
Path_removedirs_p ==
    DirCall("removedirs_p", removedirs_p(volume, protected, notempty_errno, dcall.path))

InitDirs ==
    /\ WalkIdle
    /\ MaskIdle
    /\ DirsElseIdle
    /\ volume \in Volumes
    /\ volume_before = volume
    /\ protected \in {{}} \cup {{d} : d \in {d \in DirPaths \cup {<<>>} : isdir(volume, d)}}
    /\ notempty_errno \in {"ENOTEMPTY", "EEXIST"}
    /\ dcall \in [op : {"mkdir_p", "makedirs_p", "rmdir_p", "removedirs_p"}, path : DirPaths]
    /\ doutcome = None

NextDirs ==
    \/ Path_mkdir_p
    \/ Path_makedirs_p
    \/ Path_rmdir_p
    \/ Path_removedirs_p

SpecDirs == InitDirs /\ [][NextDirs]_vars

\* A call of rmdir_p or removedirs_p has ended.
RemoveDone == doutcome # None /\ dcall.op \in {"rmdir_p", "removedirs_p"}

\* The directory the call names does not exist, or holds something.
Missing == Lookup(volume_before, dcall.path) = "ENOENT" \/
           (Lookup(volume_before, dcall.path) = "ok" /\ volume_before[dcall.path] = "absent")
NotEmpty == Lookup(volume_before, dcall.path) = "ok" /\
            volume_before[dcall.path] = "dir" /\ Children(volume_before, dcall.path) # {}

\* The process may remove entries from the directory that holds the path.
MayRemove == dirname(dcall.path) \notin protected

\* C21: rmdir_p and removedirs_p do not raise when the directory does not
\* exist or holds something; a directory that holds something is left as
\* it was, with all it holds; an OSError of any other cause (the path is a
\* file, the process may not remove the directory) leaves the call; and a
\* call that does not raise returns self.
C21_RemoveToleratesMissingAndNotEmpty ==
    RemoveDone =>
        /\ Missing => doutcome.exc = NoExc
        /\ (NotEmpty /\ MayRemove) => doutcome.exc = NoExc
        /\ NotEmpty => volume = volume_before
        /\ (Lookup(volume_before, dcall.path) = "ok" /\ volume_before[dcall.path] = "file") =>
               doutcome.exc.type = "NotADirectoryError"
        /\ (Lookup(volume_before, dcall.path) = "ok" /\ volume_before[dcall.path] = "dir"
                /\ ~ MayRemove) =>
               doutcome.exc.type = "PermissionError"
        /\ doutcome.exc = NoExc => doutcome.ret = [s |-> dcall.path]

\* A call of mkdir_p or makedirs_p has ended.
MakeDone == doutcome # None /\ dcall.op \in {"mkdir_p", "makedirs_p"}

\* C29: after mkdir_p or makedirs_p returns normally the path is a
\* directory; the call returns normally where the directory was there
\* before; and where a regular file is at the path the failure leaves the
\* call.
C29_MadeIsDirectory ==
    MakeDone =>
        /\ doutcome.exc = NoExc =>
               Lookup(volume, dcall.path) = "ok" /\ volume[dcall.path] = "dir"
        /\ (Lookup(volume_before, dcall.path) = "ok" /\ volume_before[dcall.path] = "dir") =>
               doutcome.exc = NoExc /\ volume = volume_before
        /\ (Lookup(volume_before, dcall.path) = "ok" /\ volume_before[dcall.path] = "file") =>
               doutcome.exc # NoExc

\* ---------------------------------------------------------------------
\* masks.Permissions: the symbolic form of a mode.

\* bin(number)[2:]: the binary digits, the most significant first
RECURSIVE bin(_)
bin(number) ==
    IF number < 2 THEN <<number>> ELSE Append(bin(number \div 2), number % 2)

\* gen_bit_values(number): a zero or one for each bit up to the most
\* significant 1 bit, the least significant first
gen_bit_values(number) == reversed(bin(number))

\* Permissions.bits
bits(number) == reversed(gen_bit_values(number))

\* itertools.cycle('rwx'), its i-th element
cycle_rwx(i) == <<"r", "w", "x">>[((i - 1) % 3) + 1]

\* Permissions.symbolic: zip stops with the shorter of the two
symbolic(number) ==
    [i \in 1 .. Len(bits(number)) |-> IF bits(number)[i] = 1 THEN cycle_rwx(i) ELSE "-"]

\* Permissions(perms).symbolic
Permissions_symbolic ==
    /\ perms.t = "Permissions"
    /\ shown = None
    /\ shown' = [symbolic |-> symbolic(perms.v), str |-> symbolic(perms.v)]
    /\ UNCHANGED <<exceptPerms, perms>>

InitPerms ==
    /\ WalkIdle
    /\ MaskIdle
    /\ PermsElseIdle
    /\ perms \in {[t |-> "Permissions", v |-> m] : m \in Modes}
    /\ shown = None

NextPerms == Permissions_symbolic

SpecPerms == InitPerms /\ [][NextPerms]_vars

\* The letter of the i-th of the nine permission bits, the user's read
\* bit first.
LetterOf(i) == <<"r", "w", "x", "r", "w", "x", "r", "w", "x">>[i]

\* C22: for every mode in 0..0o777 symbolic, and str, is the string of
\* nine characters that has, for the nine permission bits from the user's
\* read bit to the others' execute bit, the letter where the bit is set
\* and '-' where it is clear.
C22_SymbolicIsNineCharacters ==
    shown # None =>
        /\ Len(shown.symbolic) = 9
        /\ \A i \in 1 .. 9 :
               shown.symbolic[i] = IF (8 - (i - 1)) \in Bits(perms.v) THEN LetterOf(i) ELSE "-"
        /\ shown.str = shown.symbolic

\* ---------------------------------------------------------------------
\* write_lines: lines of text written with the platform's line separator.
\* A line is a sequence of characters; "CR", "LF" and "PS" stand for
\* '\r', '\n' and '\u2029', "a" for any character that ends no line.

\* The longest line given, in characters, and the most lines given.
MaxLineLen == 3
MaxLines == 2

\* U_LINESEPS, in the order of the alternatives of U_NEWLINE
U_LINESEPS == <<<<"CR", "LF">>, <<"CR">>, <<"LF">>, <<"PS">>>>

\* Whether s begins with prefix.
startswith(s, prefix) == Len(s) >= Len(prefix) /\ SubSeq(s, 1, Len(prefix)) = prefix

\* U_NL_END.sub('', line), U_NL_END = re.compile(U_NEWLINE.pattern + '$'):
\* the pattern is '\r\n|\r|\n|...|\u2029$', so the '$' belongs to the last
\* alternative alone; every match is removed, from left to right, and '$'
\* matches at the end and before a final '\n'
RECURSIVE U_NL_END_sub(_)
U_NL_END_sub(line) ==
    IF line = <<>> THEN <<>>
    ELSE IF startswith(line, <<"CR", "LF">>) THEN U_NL_END_sub(SubSeq(line, 3, Len(line)))
    ELSE IF Head(line) \in {"CR", "LF"} THEN U_NL_END_sub(Tail(line))
    ELSE IF Head(line) = "PS" /\ Tail(line) \in {<<>>, <<"LF">>} THEN U_NL_END_sub(Tail(line))
    ELSE <<Head(line)>> \o U_NL_END_sub(Tail(line))

\* _strip_newlines(lines)
strip_newlines(lines) == [i \in DOMAIN lines |-> U_NL_END_sub(lines[i])]

\* Path._replace_linesep(lines): line + os.linesep for every stripped line
replace_linesep(lines, os_linesep) ==
    [i \in DOMAIN lines |-> strip_newlines(lines)[i] \o os_linesep]

\* f.writelines(lines) on a file opened with newline='': the lines, joined
RECURSIVE writelines(_)
writelines(lines) ==
    IF lines = <<>> THEN <<>> ELSE Head(lines) \o writelines(Tail(lines))

\* Path.write_lines: mode 'a' keeps what the file holds, mode 'w' drops it
write_lines(content, lines, append, os_linesep) ==
    (IF append THEN content ELSE <<>>) \o writelines(replace_linesep(lines, os_linesep))

\* p.write_lines(lines, append=append)
Path_write_lines ==
    /\ ~ written
    /\ Len(given) > 0
    /\ text' = write_lines(text, given, appending, linesep)
    /\ written' = TRUE
    /\ UNCHANGED <<exceptLines, text_before, given, appending, linesep>>

\* The lines a caller may give.
GivenLines == UNION {[1 .. n -> {"a", "CR", "LF", "PS"}] : n \in 0 .. MaxLineLen}

InitLines ==
    /\ WalkIdle
    /\ MaskIdle
    /\ LinesElseIdle
    /\ text \in {<<>>, <<"a", "LF">>}
    /\ text_before = text
    /\ given \in UNION {[1 .. n -> GivenLines] : n \in 1 .. MaxLines}
    /\ appending \in BOOLEAN
    /\ linesep \in {<<"LF">>, <<"CR", "LF">>}
    /\ written = FALSE

NextLines == Path_write_lines

SpecLines == InitLines /\ [][NextLines]_vars

\* The line without its single trailing newline sequence, if it has one.
WithoutTrailingNewline(line) ==
    IF Len(line) >= 2 /\ SubSeq(line, Len(line) - 1, Len(line)) = <<"CR", "LF">>
    THEN SubSeq(line, 1, Len(line) - 2)
    ELSE IF Len(line) >= 1 /\ line[Len(line)] \in {"CR", "LF", "PS"}
    THEN SubSeq(line, 1, Len(line) - 1)
    ELSE line

\* What the claim has write_lines write for the lines from the i-th on.
RECURSIVE ExpectedText(_, _)
ExpectedText(lines, i) ==
    IF i > Len(lines) THEN <<>>
    ELSE WithoutTrailingNewline(lines[i]) \o linesep \o ExpectedText(lines, i + 1)

\* C23: write_lines writes, for each line in order, the line without its
\* single trailing newline sequence, every other character unchanged,
\* followed by the platform's line separator; after what the file held
\* where append is true, instead of it where not.
C23_WriteLinesStripsOneTrailingNewline ==
    written =>
        text = (IF appending THEN text_before ELSE <<>>) \o ExpectedText(given, 1)

\* ---------------------------------------------------------------------
\* The atime and mtime setters.

\* The latest time, in seconds, a file has or is given.
MaxTime == 3

\* _make_timestamp_ns(value) for a value of timestamp_s whole seconds:
\* int(timestamp_s * 10**9). The model counts file times in units of
\* 10**6 ns to stay inside the integers of the checker, so the factor
\* is 10**3.
make_timestamp_ns(timestamp_s) == timestamp_s * 10 ^ 3

\* os.utime(path, ns=(atime_ns, mtime_ns)), as Path.utime calls it
utime(st, ns) == [st EXCEPT !.st_atime_ns = ns[1], !.st_mtime_ns = ns[2]]

\* Path.set_atime: the variable it names mtime_ns is read from st_atime_ns
set_atime(st, timestamp_s) == utime(st, <<make_timestamp_ns(timestamp_s), st.st_atime_ns>>)

\* Path.set_mtime
set_mtime(st, timestamp_s) == utime(st, <<st.st_atime_ns, make_timestamp_ns(timestamp_s)>>)

\* p.atime = value
Path_set_atime ==
    /\ assigned.attr = "atime"
    /\ ~ assigned.done
    /\ stat' = set_atime(stat, assigned.value)
    /\ assigned' = [assigned EXCEPT !.done = TRUE]
    /\ UNCHANGED <<exceptTimes, stat_before>>

\* p.mtime = value
Path_set_mtime ==
    /\ assigned.attr = "mtime"
    /\ ~ assigned.done
    /\ stat' = set_mtime(stat, assigned.value)
    /\ assigned' = [assigned EXCEPT !.done = TRUE]
    /\ UNCHANGED <<exceptTimes, stat_before>>

InitTimes ==
    /\ WalkIdle
    /\ MaskIdle
    /\ TimesElseIdle
    /\ stat \in [st_atime_ns : {make_timestamp_ns(t) : t \in 0 .. MaxTime},
                 st_mtime_ns : {make_timestamp_ns(t) : t \in 0 .. MaxTime}]
    /\ stat_before = stat
    /\ assigned \in [attr : {"atime", "mtime"}, value : 0 .. MaxTime, done : {FALSE}]

NextTimes ==
    \/ Path_set_atime
    \/ Path_set_mtime

SpecTimes == InitTimes /\ [][NextTimes]_vars

\* C24: assigning atime sets the access time and leaves the modification
\* time as it was; assigning mtime sets the modification time and leaves
\* the access time as it was.
C24_SettersChangeOneTimeOnly ==
    assigned.done =>
        /\ assigned.attr = "atime" =>
               /\ stat.st_atime_ns = make_timestamp_ns(assigned.value)
               /\ stat.st_mtime_ns = stat_before.st_mtime_ns
        /\ assigned.attr = "mtime" =>
               /\ stat.st_mtime_ns = make_timestamp_ns(assigned.value)
               /\ stat.st_atime_ns = stat_before.st_atime_ns

\* ---------------------------------------------------------------------
\* chmod with a symbolic mode, on the whole st_mode of a file.

\* What os.stat may answer as st_mode: the file type (none, S_IFDIR,
\* S_IFREG), the setuid, setgid and sticky bits, and the nine permission
\* bits.
StModes ==
    {type + special + permission :
        type \in {0, 16384, 32768},
        special \in {0, 512, 1024, 2048, 3584},
        permission \in {0, 420, 493, 511}}

\* mode = mask(self.stat().st_mode), st_mode being all that stat answers
chmod_apply_st_mode ==
    /\ mask # None
    /\ ~mask.raised
    /\ new_mode = None
    /\ \E m \in StModes :
        /\ st_mode' = m
        /\ new_mode' = [t |-> "int", v |-> compose(mask.value, m)]
    /\ UNCHANGED <<libVars, cfgVars, walkVars, clauses, mode, mask>>

InitStMode ==
    /\ WalkIdle
    /\ LibIdle
    /\ clauses \in {<<c>> : c \in SimpleClauses}
    /\ mode = join(clauses)
    /\ mask = None
    /\ st_mode = 0
    /\ new_mode = None

NextStMode ==
    \/ chmod_compile
    \/ chmod_apply_st_mode

SpecStMode == InitStMode /\ [][NextStMode]_vars

\* The bits of a mode outside the nine permission bits.
OutsidePermissions(m) == m - (m % 512)

\* C25: applying a compiled clause with op '+', '-' or '=' leaves every
\* bit of the mode outside the nine permission bits as it was.
C25_MaskKeepsOtherBits ==
    new_mode.t = "int" =>
        OutsidePermissions(new_mode.v) = OutsidePermissions(st_mode)

\* ---------------------------------------------------------------------
\* Further properties of the walk.

\* C26: under Traversal(follow) an item is yielded only if follow was
\* called with every directory below the root that holds it, and
\* answered true; also under a match filter. (follow is any function of
\* the item, and the walk depends on it through its answers alone, so for
\* a directory it was never called with it may as well be false.)
C26_DescentOnlyWhereFollowAllows ==
    driver = "Traversal" =>
        \A n \in Yielded : \A d \in Ancestors(n) : Followed(d) = "T"

\* ---------------------------------------------------------------------
\* Further properties of Path as a context manager.

\* C27: with-blocks over Path objects nest: every exit, also of a block
\* whose Path object was entered again inside it, leaves the process in
\* the directory it was in at the matching entry.
C27_NestedBlocksRestore ==
    (event # None /\ event.ev = "exit") => workdir = event.block.entry

\* ---------------------------------------------------------------------
\* One Pattern object applied to paths of several dialects.

\* The most paths one Pattern object is applied to.
MaxPatternCalls == 2

\* Pattern(pattern), CaseInsensitive(pattern): the object __init__ leaves,
\* without the attribute _pattern
Pattern_init(cls, pattern) == [t |-> cls, v |-> pattern]

\* matcher(path), for a path of the class with the module m
Pattern_apply ==
    /\ Len(pat_calls) < MaxPatternCalls
    /\ \E m \in Modules, name \in EntryNames :
           LET p == module_join(m, TheDir, <<name>>)
               r == Pattern_call(pat_obj, m, p)
           IN  /\ pat_obj' = r.match
               /\ pat_calls' = Append(pat_calls, [module |-> m, path |-> p, ret |-> r.ret])
    /\ UNCHANGED exceptPattern

InitPattern ==
    /\ WalkIdle
    /\ MaskIdle
    /\ PatternElseIdle
    /\ pat_obj \in {Pattern_init(cls, p) : cls \in {"Pattern", "CaseInsensitive"}, p \in Patterns}
    /\ pat_calls = <<>>

NextPattern == Pattern_apply

SpecPattern == InitPattern /\ [][NextPattern]_vars

\* C28: what a Pattern object answers for a path is what a Pattern newly
\* made of the same string answers for it, whatever paths the object was
\* applied to before.
C28_PatternIsHistoryIndependent ==
    \A i \in DOMAIN pat_calls :
        pat_calls[i].ret =
            Pattern_call(Pattern_init(pat_obj.t, pat_obj.v),
                         pat_calls[i].module, pat_calls[i].path).ret

\* ---------------------------------------------------------------------
\* Termination of the walk.

\* The walk with a caller that always resumes it: no step that can be
\* taken, of the generator or of its caller, is put off for ever.
SpecResumed == InitWalk /\ [][NextWalk]_vars /\ WF_vars(NextWalk)

\* The values of errors= whose handler returns.
ReturningPolicies == {Str("warn"), Str("ignore"), Func("handler")}

\* C30: on a finite tree whose directories are not reachable from
\* themselves and that does not change, a walk that is always resumed
\* ends, under every error policy whose handler returns; no directory is
\* listed a second time and no item is yielded a second time.
C30_WalkTerminates ==
    /\ [](errors \in ReturningPolicies =>
              /\ pc = "list" => listing[Top.self] = "?"
              /\ Len(yielded) = Cardinality(Yielded))
    /\ (errors \in ReturningPolicies) ~> (pc = "done")

\* A walk under a caller's handler has ended after a directory failed to
\* list, a descent decision failed, and an item two levels down was
\* yielded.
C30_Witness ==
    /\ pc = "done"
    /\ errors = Func("handler")
    /\ driver = "Traversal"
    /\ \E i, j \in DOMAIN handlerLog : handlerLog[i].what = "list" /\ handlerLog[j].what = "access"
    /\ \E n \in Yielded : Ancestors(n) # {}

====
